---- MODULE Spec2Model ----
(***************************************************************************)
(* Model of the lesson-content pipeline in src/scripts:                    *)
(*   generate_content.py  - save_json_content, generate_media_batch and    *)
(*                          the media generators it drives                 *)
(*   json_to_h5p.py       - the archive patcher                            *)
(*   run_all.py           - the chain generator -> packager                *)
(*                                                                         *)
(* Environment assumptions: file-system operations succeed; a remote call  *)
(* may fail at any point; the process may be terminated between any two    *)
(* steps, including between the truncating open() and the json.dump() of   *)
(* the checkpoint rewrite.                                                 *)
(*                                                                         *)
(* A string is an atom with its sequence of code points (code_points), so  *)
(* that len(), ord() and the katakana range test are computed as the code  *)
(* computes them.  A string of more than one code point is a list entry    *)
(* that is not a symbol.                                                   *)
(***************************************************************************)
EXTENDS Integers, Sequences, FiniteSets, TLC

(***************************************************************************)
(* Bounds of the model.                                                    *)
(***************************************************************************)
MaxLen == 2

(***************************************************************************)
(* Program constants.                                                      *)
(***************************************************************************)
batch_size == 5
ORD_KATAKANA_A == 12450
ORD_KATAKANA_N == 12531

(***************************************************************************)
(* Glyphs of the model: hiragana "a" (in the example table), katakana "wi" *)
(* (in the katakana range, absent from the example table), and the        *)
(* two-character string "ai" (not a symbol: ord() raises TypeError on it). *)
(***************************************************************************)
HIRA_A == "hira_a"
KATA_WI == "kata_wi"
HIRA_AI == "hira_ai"
Glyphs == {HIRA_A, KATA_WI, HIRA_AI}

code_points(s) ==
    IF s = HIRA_A THEN <<12354>>
    ELSE IF s = KATA_WI THEN <<12528>>
    ELSE IF s = HIRA_AI THEN <<12354, 12356>>
    ELSE <<>>

(* len(s) and ord(s) of Python *)
str_len(s) == Len(code_points(s))
ord(s) == code_points(s)[1]

Null == [null |-> TRUE]
EmptyDict == <<>>

Put(d, k, v) == [x \in (DOMAIN d) \cup {k} |-> IF x = k THEN v ELSE d[x]]

Range(s) == {s[n] : n \in DOMAIN s}

RECURSIVE Filter(_, _)
Filter(s, keep) ==
    IF s = <<>> THEN <<>>
    ELSE IF Head(s) \in keep THEN <<Head(s)>> \o Filter(Tail(s), keep)
    ELSE Filter(Tail(s), keep)

Min(a, b) == IF a < b THEN a ELSE b

(***************************************************************************)
(* get_example_word_and_translation: only the "word" field decides         *)
(* behaviour (generate_audio's include_example branch, the card text).     *)
(***************************************************************************)
get_example_word(c) ==
    IF c = HIRA_A THEN "ame" ELSE ""

(* lines 920-921 and 148: the character type from the code point *)
char_type(c) ==
    IF ord(c) >= ORD_KATAKANA_A /\ ord(c) <= ORD_KATAKANA_N THEN "katakana" ELSE "hiragana"

(* lines 924, 927: file names inside images/ and audios/ *)
char_img_name(c) == [prefix |-> "char_", type |-> char_type(c), glyph |-> c, ext |-> ".png"]
audio_name(c) == [prefix |-> "", type |-> char_type(c), glyph |-> c, ext |-> ".mp3"]

(* relative paths as the code writes them into a result *)
RelPath(dir, name) == [dir |-> dir, name |-> name]

(* generate_media_batch: the recorded image path, lines 951 and 956 *)
image_path_generated(c) == RelPath("images", char_img_name(c))
image_path_existing(c) == RelPath("images", char_img_name(c))
(* generate_media_batch: the recorded audio path, lines 963 and 968 *)
audio_path_generated(c) == RelPath("audios", audio_name(c))
audio_path_existing(c) == RelPath("audio", audio_name(c))

(* what the except clause of generate_media_batch records, lines 983-986 *)
exception_result == [char_image |-> Null, audio |-> Null]

(***************************************************************************)
(* Inputs: every list of at most MaxLen entries, one list longer than a    *)
(* batch and one longer than two batches.                                  *)
(***************************************************************************)
RECURSIVE SeqsUpTo(_, _)
SeqsUpTo(S, n) ==
    IF n = 0 THEN {<<>>}
    ELSE LET shorter == SeqsUpTo(S, n - 1)
         IN  shorter \cup {Append(s, x) : s \in {t \in shorter : Len(t) = n - 1}, x \in S}

LongList == [n \in 1..(batch_size + 1) |-> IF n % 2 = 1 THEN HIRA_A ELSE KATA_WI]
(* a list of three batches, the last one shorter *)
ThreeBatchList == [n \in 1..(2 * batch_size + 1) |-> IF n % 2 = 1 THEN KATA_WI ELSE HIRA_A]
CharLists == SeqsUpTo(Glyphs, MaxLen) \cup {LongList, ThreeBatchList}

(***************************************************************************)
(* Files of the output directory.                                          *)
(***************************************************************************)
NoFile == [state |-> "absent"]
Corrupt == [state |-> "corrupt"]
JsonFile(data) == [state |-> "json", data |-> data]

VARIABLE input                  \* the list given to this scenario (symbols / card texts)
VARIABLE imgFiles               \* glyphs whose images/<char_img_name> exists
VARIABLE audFiles               \* glyphs whose audios/<audio_name> exists
VARIABLE progress_file          \* <output_dir>/.media_progress.json
VARIABLE pc                     \* position of the process
VARIABLE caller                 \* who called generate_media_batch
VARIABLE characters             \* parameter of generate_media_batch
VARIABLE characters_to_process  \* line 907
VARIABLE i                      \* batch offset, line 910
VARIABLE j                      \* position in the batch, line 916 (1-based)
VARIABLE char_result            \* line 917
VARIABLE results                \* line 892
VARIABLE processed_chars        \* line 897
VARIABLE loaded                 \* the progress map as read at entry (lines 898-904)
VARIABLE remote                 \* kinds of remote calls made by the current invocation
VARIABLE invoked                \* generators invoked for the current symbol
VARIABLE sleeps                 \* rate-limit delays of the current invocation
VARIABLE lastEnd                \* how the previous invocation ended
VARIABLE prev                   \* <<>> or <<[S, ret]>>: the call that completed just before
VARIABLE docFile                \* <output_dir>/N5_<lesson_id>_dialog_cards.json
VARIABLE media_trace            \* the current invocation in order: symbols, generator calls, delays
VARIABLE extraDocs              \* documents put into the input directory by hand
VARIABLE templates              \* the archives under templates_dir
VARIABLE json_files             \* json_to_h5p.main: the files still to process
VARIABLE packages               \* the archives written to the packager's output_dir
VARIABLE opened                 \* names of the input files the packager has opened
VARIABLE pk_log                 \* per processed file: name, kind, template, outcome, archive
VARIABLE output_dir             \* json_to_h5p --output_dir: "h5p_output" or a directory of templates_dir
VARIABLE pk_exit                \* exit status of the json_to_h5p process
VARIABLE h5p_dir                \* upload_to_moodle --h5p_dir: entry name -> [readable]
VARIABLE config                 \* upload_to_moodle.main: config, Null when get_config gave None
VARIABLE up_pc                  \* position of the upload_to_moodle process
VARIABLE h5p_files              \* upload_to_moodle.main: the archives still to process
VARIABLE found                  \* upload_to_moodle.main: the archives find_h5p_files returned
VARIABLE item_id                \* line 228
VARIABLE successful_uploads     \* line 220
VARIABLE failed_uploads         \* line 221
VARIABLE up_trace               \* the remote calls and delays of the uploader run, in order
VARIABLE up_exit                \* exit status of the upload_to_moodle process
VARIABLE gpt_pc                 \* position inside call_gpt4o
VARIABLE prompt                 \* parameter of call_gpt4o
VARIABLE attempt                \* line 828
VARIABLE retry_delay            \* line 826
VARIABLE gpt_trace              \* the attempts and waits of call_gpt4o, in order
VARIABLE gpt_result             \* what call_gpt4o returned or raised
VARIABLE au_pc                  \* position inside generate_audio
VARIABLE character              \* parameter of generate_audio
VARIABLE au_files               \* the audio files on disk: [char, path]
VARIABLE au_failed_at           \* the step of generate_audio that raised, "" when none did
VARIABLE au_ret                 \* what generate_audio returned: "none", "true", "false"

packVars == <<extraDocs, templates, json_files, packages, opened, pk_log, output_dir, pk_exit>>

upVars == <<h5p_dir, config, up_pc, h5p_files, found, item_id, successful_uploads, failed_uploads,
            up_trace, up_exit>>

gptVars == <<gpt_pc, prompt, attempt, retry_delay, gpt_trace, gpt_result>>

audioVars == <<au_pc, character, au_files, au_failed_at, au_ret>>

otherVars == <<upVars, gptVars, audioVars>>

genVars == <<imgFiles, audFiles, progress_file, pc, caller, characters,
             characters_to_process, i, j, char_result, results, processed_chars,
             loaded, remote, invoked, sleeps, lastEnd, prev, docFile, media_trace>>
genVars_noPc == <<imgFiles, audFiles, progress_file, caller, characters,
                  characters_to_process, i, j, char_result, results, processed_chars,
                  loaded, remote, invoked, sleeps, lastEnd, prev, docFile, media_trace>>

(***************************************************************************)
(* generate_example_image (provider "openai"), lines 247-358.  The outcome *)
(* names the first step that fails: the prompt completion (255), the image *)
(* API (325), the download (333-334), the resize (340-348).  The function  *)
(* catches every exception and returns False; the downloaded file is       *)
(* written (335-336) before the resize is tried.                           *)
(***************************************************************************)
ImageOutcomes == {"prompt_failed", "api_failed", "download_failed", "resize_failed", "ok"}

generate_example_image(outcome) ==
    [success |-> outcome = "ok",
     file    |-> outcome \in {"resize_failed", "ok"},
     remote  |-> {"text"}
                 \cup (IF outcome # "prompt_failed" THEN {"image"} ELSE {})
                 \cup (IF outcome \notin {"prompt_failed", "api_failed"} THEN {"download"} ELSE {})]

(***************************************************************************)
(* generate_audio(character, output_path, include_example=True), lines     *)
(* 360-421.  The outcome names the first step that fails: the speech call  *)
(* for the character (372), the speech call for the word (386), loading    *)
(* the clips (398-399), the export (402, which may or may not have created *)
(* the target file when it fails).  Without an example word the clip is    *)
(* renamed to the target (409) and only the first speech call can fail.    *)
(***************************************************************************)
AudioOutcomes(c) ==
    IF get_example_word(c) # ""
    THEN {"tts_char_failed", "tts_word_failed", "concat_failed",
          "export_failed_no_file", "export_failed_partial_file", "ok"}
    ELSE {"tts_char_failed", "ok"}

generate_audio(c, outcome) ==
    [success |-> outcome = "ok",
     file    |-> outcome \in {"export_failed_partial_file", "ok"},
     remote  |-> {"speech"}]

(* one entry of media_trace *)
TraceEntry(step, c, ok) == [step |-> step, char |-> c, ok |-> ok]

(* a variant that never finds the file *)
path_exists_never(files, c) == FALSE

(* os.path.exists on the target path, lines 938 and 959 *)
path_exists(files, c) == c \in files

(* a variant that waits after every batch *)
delay_after_batch_always(offset, n) == TRUE

(* line 988 *)
delay_after_batch(offset, n) == offset + batch_size < n

(***************************************************************************)
(* Position in the batch loop, lines 910-916.                              *)
(***************************************************************************)
batch == SubSeq(characters_to_process, i + 1, Min(i + batch_size, Len(characters_to_process)))
MoreBatches == i < Len(characters_to_process)
InBatch == MoreBatches /\ j <= Len(batch)
char == batch[j]

(* the symbols of characters_to_process whose loop body has finished *)
Finished == SubSeq(characters_to_process, 1, Min(i + j - 1, Len(characters_to_process)))

(* lines 895-904: load the checkpoint; an unreadable file leaves {} *)
load_progress(file) == IF file.state = "json" THEN file.data ELSE EmptyDict

(* a variant that ignores the progress map *)
filter_unprocessed_none(chars, processed) == chars

(* line 907 *)
filter_unprocessed(chars, processed) ==
    Filter(chars, Range(chars) \ (DOMAIN processed))

(* lines 72-75 of save_json_content: the single-symbol card texts *)
single_symbols(texts) == Filter(texts, {c \in Range(texts) : str_len(c) = 1})

(***************************************************************************)
(* generate_media_batch, lines 887-908: entry.                             *)
(***************************************************************************)
Enter(chars, who) ==
    /\ caller' = who
    /\ characters' = chars
    /\ results' = EmptyDict
    /\ processed_chars' = load_progress(progress_file)
    /\ loaded' = load_progress(progress_file)
    /\ characters_to_process' = filter_unprocessed(chars, load_progress(progress_file))
    /\ i' = 0
    /\ j' = 1
    /\ char_result' = EmptyDict
    /\ remote' = {}
    /\ invoked' = {}
    /\ sleeps' = 0
    /\ media_trace' = <<>>
    /\ pc' = "loop"
    /\ UNCHANGED <<otherVars, packVars, input, imgFiles, audFiles, progress_file, lastEnd, prev, docFile>>

(* a direct call generate_media_batch(S, D) *)
CallBatch ==
    /\ pc = "idle"
    /\ Enter(input, "direct")

(* save_json_content on a dialog_cards document, lines 70-80: the call is *)
(* made only when there is at least one single-symbol card                *)
CallFromSave ==
    /\ pc = "idle"
    /\ single_symbols(input) # <<>>
    /\ Enter(single_symbols(input), "save_json_content")

(***************************************************************************)
(* Lines 916-935: the head of the loop body.  ord(char) raises TypeError   *)
(* for an entry that is not exactly one character; the except clause       *)
(* (981-986) records the double-null result and the loop goes on.          *)
(***************************************************************************)
(* a variant that lets the exception out of the loop *)
except_clause_reraise(res, c) == [results |-> res, pc |-> "raised"]

except_clause(res, c) == [results |-> Put(res, c, exception_result), pc |-> "loop"]

NextChar ==
    /\ pc = "loop"
    /\ InBatch
    /\ invoked' = {}
    /\ char_result' = EmptyDict
    /\ media_trace' = Append(media_trace, TraceEntry("symbol", char, TRUE))
    /\ IF str_len(char) # 1
       THEN /\ results' = except_clause(results, char).results
            /\ pc' = except_clause(results, char).pc
            /\ j' = j + 1
       ELSE /\ pc' = "image"
            /\ UNCHANGED <<results, j>>
    /\ UNCHANGED <<otherVars, packVars, input, imgFiles, audFiles, progress_file, caller, characters,
                   characters_to_process, i, processed_chars, loaded, remote, sleeps,
                   lastEnd, prev, docFile>>

(***************************************************************************)
(* Lines 937-956: the character image.                                     *)
(***************************************************************************)
ImageStep ==
    /\ pc = "image"
    /\ IF ~path_exists(imgFiles, char)
       THEN \E outcome \in ImageOutcomes :
              LET r == generate_example_image(outcome) IN
              /\ imgFiles' = IF r.file THEN imgFiles \cup {char} ELSE imgFiles
              /\ remote' = remote \cup r.remote
              /\ invoked' = invoked \cup {"image"}
              /\ media_trace' = Append(media_trace, TraceEntry("image", char, r.success))
              /\ char_result' = Put(char_result, "char_image",
                                    IF r.success THEN image_path_generated(char) ELSE Null)
       ELSE /\ char_result' = Put(char_result, "char_image", image_path_existing(char))
            /\ UNCHANGED <<imgFiles, remote, invoked, media_trace>>
    /\ pc' = "audio"
    /\ UNCHANGED <<otherVars, packVars, input, audFiles, progress_file, caller, characters,
                   characters_to_process, i, j, results, processed_chars, loaded, sleeps,
                   lastEnd, prev, docFile>>

(***************************************************************************)
(* Lines 958-968: the audio clip.                                          *)
(***************************************************************************)
AudioStep ==
    /\ pc = "audio"
    /\ IF ~path_exists(audFiles, char)
       THEN \E outcome \in AudioOutcomes(char) :
              LET r == generate_audio(char, outcome) IN
              /\ audFiles' = IF r.file THEN audFiles \cup {char} ELSE audFiles
              /\ remote' = remote \cup r.remote
              /\ invoked' = invoked \cup {"audio"}
              /\ media_trace' = Append(media_trace, TraceEntry("audio", char, r.success))
              /\ char_result' = Put(char_result, "audio",
                                    IF r.success THEN audio_path_generated(char) ELSE Null)
       ELSE /\ char_result' = Put(char_result, "audio", audio_path_existing(char))
            /\ UNCHANGED <<audFiles, remote, invoked, media_trace>>
    /\ pc' = "store"
    /\ UNCHANGED <<otherVars, packVars, input, imgFiles, progress_file, caller, characters,
                   characters_to_process, i, j, results, processed_chars, loaded, sleeps,
                   lastEnd, prev, docFile>>

(***************************************************************************)
(* Lines 973-978: record the result and open the checkpoint for writing,   *)
(* which truncates it.                                                     *)
(***************************************************************************)
StoreResult ==
    /\ pc = "store"
    /\ results' = Put(results, char, char_result)
    /\ processed_chars' = Put(processed_chars, char, char_result)
    /\ progress_file' = Corrupt
    /\ pc' = "dump"
    /\ UNCHANGED <<otherVars, packVars, loaded, input, imgFiles, audFiles, caller, characters,
                   characters_to_process, i, j, char_result, remote, invoked, sleeps,
                   lastEnd, prev, docFile, media_trace>>

(* line 979: json.dump of the whole progress map, then the file is closed *)
DumpProgress ==
    /\ pc = "dump"
    /\ progress_file' = JsonFile(processed_chars)
    /\ j' = j + 1
    /\ pc' = "loop"
    /\ UNCHANGED <<otherVars, packVars, input, imgFiles, audFiles, caller, characters,
                   characters_to_process, i, char_result, results, processed_chars, loaded,
                   remote, invoked, sleeps, lastEnd, prev, docFile, media_trace>>

(***************************************************************************)
(* Lines 988-990 and the step of the for loop of line 910.                 *)
(***************************************************************************)
EndOfBatch ==
    /\ pc = "loop"
    /\ MoreBatches
    /\ ~InBatch
    /\ sleeps' = IF delay_after_batch(i, Len(characters_to_process)) THEN sleeps + 1 ELSE sleeps
    /\ media_trace' = IF delay_after_batch(i, Len(characters_to_process))
                      THEN Append(media_trace, TraceEntry("sleep", "", TRUE))
                      ELSE media_trace
    /\ i' = i + batch_size
    /\ j' = 1
    /\ UNCHANGED <<otherVars, packVars, input, imgFiles, audFiles, progress_file, pc, caller, characters,
                   characters_to_process, char_result, results, processed_chars, loaded,
                   remote, invoked, lastEnd, prev, docFile>>

(***************************************************************************)
(* Line 992: generate_media_batch returns results.                         *)
(***************************************************************************)
Return ==
    /\ pc = "loop"
    /\ ~MoreBatches
    /\ prev' = <<[S |-> characters, ret |-> results]>>
    /\ lastEnd' = "completed"
    /\ IF caller = "save_json_content"
       THEN /\ pc' = "assemble"
            /\ UNCHANGED <<characters, characters_to_process, results, processed_chars, loaded,
                           remote, sleeps, i, j, media_trace>>
       ELSE /\ pc' = "idle"
            /\ media_trace' = <<>>
            /\ characters' = <<>>
            /\ characters_to_process' = <<>>
            /\ results' = EmptyDict
            /\ processed_chars' = EmptyDict
            /\ loaded' = EmptyDict
            /\ remote' = {}
            /\ sleeps' = 0
            /\ i' = 0
            /\ j' = 1
    /\ char_result' = EmptyDict
    /\ invoked' = {}
    /\ UNCHANGED <<otherVars, packVars, input, imgFiles, audFiles, progress_file, caller, docFile>>

(***************************************************************************)
(* Text values of a card.  A card text as drafted is the bare string; the  *)
(* assembler rewrites it into one of its HTML templates.                   *)
(***************************************************************************)
Get(d, k, default) == IF k \in DOMAIN d THEN d[k] ELSE default

Plain(c) == [fmt |-> "plain", ch |-> c, word |-> ""]
Html(fmt, c, word) == [fmt |-> fmt, ch |-> c, word |-> word]

(* get_indonesian_pronunciation_guide, lines 423-558 *)
get_indonesian_pronunciation_guide(c) == IF c = HIRA_A THEN "a seperti dalam kata 'api'" ELSE ""

(* main, test mode, lines 1003-1013: the document built from the characters *)
test_card(c) == [text |-> Plain(c), answer |-> Html("test_answer", c, ""),
                 tip |-> Html("test_tip", c, "")]
(* a variant that keeps only the first character *)
test_document_first(texts) ==
    [title |-> "test", cards |-> [n \in (DOMAIN texts) \cap {1} |-> test_card(texts[n])]]

test_document(texts) == [title |-> "test", cards |-> [n \in DOMAIN texts |-> test_card(texts[n])]]

(* save_json_content, lines 83-150: one card of a dialog_cards document *)
is_single_symbol(card) == "text" \in DOMAIN card /\ str_len(card["text"].ch) = 1

attach_media(card, c, media_results) ==
    IF c \in DOMAIN media_results
    THEN LET result == media_results[c]
             withImage == IF Get(result, "char_image", Null) # Null
                          THEN Put(card, "image", [path |-> result["char_image"], width |-> 300,
                                                   height |-> 300, alt |-> c])
                          ELSE card
         IN  IF Get(result, "audio", Null) # Null
             THEN Put(withImage, "audio", [path |-> result["audio"], mime |-> "audio/mpeg"])
             ELSE withImage
    ELSE card

annotate_card(card, media_results) ==
    IF is_single_symbol(card)
    THEN LET c == card["text"].ch
             word == get_example_word(c)
             withMedia == attach_media(card, c, media_results)
             withText == Put(withMedia, "text",
                             IF word # "" THEN Html("front_word", c, word) ELSE Html("front", c, ""))
             withAnswer == Put(withText, "answer",
                               Html("answer", c, get_indonesian_pronunciation_guide(c)))
         IN  Put(withAnswer, "tip", Html("tip", c, char_type(c)))
    ELSE card

(* save_json_content, lines 70-165, given the media results *)
assemble(content, media_results) ==
    LET cards == [n \in DOMAIN content["cards"] |-> annotate_card(content["cards"][n], media_results)]
        withCards == Put(content, "cards", cards)
        behaviour == Get(content, "behaviour", EmptyDict)
    IN  Put(withCards, "behaviour", Put(behaviour, "randomCards", TRUE))

(* lines 156-165 alone: the document is written without touching the cards *)
assemble_without_media(content) ==
    Put(content, "behaviour", Put(Get(content, "behaviour", EmptyDict), "randomCards", TRUE))

ResetCall ==
    /\ characters' = <<>>
    /\ characters_to_process' = <<>>
    /\ results' = EmptyDict
    /\ processed_chars' = EmptyDict
    /\ loaded' = EmptyDict
    /\ char_result' = EmptyDict
    /\ remote' = {}
    /\ invoked' = {}
    /\ sleeps' = 0
    /\ media_trace' = <<>>
    /\ i' = 0
    /\ j' = 1

(***************************************************************************)
(* save_json_content after generate_media_batch returned: lines 82-168.    *)
(***************************************************************************)
AnnotateAndSave ==
    /\ pc = "assemble"
    /\ docFile' = JsonFile(assemble(test_document(input), results))
    /\ pc' = "saved"
    /\ ResetCall
    /\ UNCHANGED <<otherVars, packVars, input, imgFiles, audFiles, progress_file, caller, lastEnd, prev>>

(* lines 167-168 and 1021-1022: save_json_content returns, the run ends *)
Exit ==
    /\ pc = "saved"
    /\ pc' = "idle"
    /\ UNCHANGED <<otherVars, packVars, input, imgFiles, audFiles, progress_file, caller, characters,
                   characters_to_process, i, j, char_result, results, processed_chars, loaded,
                   remote, invoked, sleeps, lastEnd, prev, docFile, media_trace>>

(* save_json_content on a document without single-symbol cards: line 78 is *)
(* false, the cards are left as they are and the document is written       *)
SaveWithoutMedia ==
    /\ pc = "idle"
    /\ single_symbols(input) = <<>>
    /\ docFile' = JsonFile(assemble_without_media(test_document(input)))
    /\ UNCHANGED <<otherVars, packVars, input, imgFiles, audFiles, progress_file, pc, caller, characters,
                   characters_to_process, i, j, char_result, results, processed_chars, loaded,
                   remote, invoked, sleeps, lastEnd, prev, media_trace>>

(***************************************************************************)
(* The generator process is terminated.  Its memory is lost, the files     *)
(* stay.                                                                   *)
(***************************************************************************)
Crash ==
    /\ pc \in {"loop", "image", "audio", "store", "dump", "assemble", "saved"}
    /\ pc' = "idle"
    /\ lastEnd' = IF pc \in {"assemble", "saved"} THEN lastEnd ELSE "crashed"
    /\ prev' = IF pc \in {"assemble", "saved"} THEN prev ELSE <<>>
    /\ ResetCall
    /\ UNCHANGED <<otherVars, packVars, input, imgFiles, audFiles, progress_file, caller, docFile>>

(***************************************************************************)
(* json_to_h5p.py: the archive patcher.  A JSON object is a function from  *)
(* its keys; a file name is the sequence of its parts, the kind keywords   *)
(* and the extension being parts of their own, so that "keyword in name"   *)
(* and endswith() are tests on the parts.                                  *)
(***************************************************************************)

(* CONTENT_TYPE_MAPPING.keys(), lines 26-33, in iteration order *)
CONTENT_TYPE_KEYS == <<"dialog_cards", "course_presentation", "multiple_choice",
                       "fill_blanks", "drag_drop", "memory_game">>

EmptyText == Plain("")

(* a variant that replaces the block by the document's *)
merge_keys_replace(target, source) == source

(* dict.update-like loop of lines 183-184, 228-229, 260-261, 281-282 *)
merge_keys(target, source) ==
    [k \in (DOMAIN target) \cup (DOMAIN source) |->
        IF k \in DOMAIN source THEN source[k] ELSE target[k]]

(* lines 179-184, 256-261, 277-282: the behaviour block *)
update_behaviour(existing_content, new_content_data) ==
    IF "behaviour" \in DOMAIN new_content_data
    THEN Put(existing_content, "behaviour",
             merge_keys(Get(existing_content, "behaviour", EmptyDict),
                        new_content_data["behaviour"]))
    ELSE existing_content

(* lines 162-163 and the same test in every update function *)
update_title(existing_content, new_content_data) ==
    IF "title" \in DOMAIN new_content_data
    THEN Put(existing_content, "title", new_content_data["title"])
    ELSE existing_content

(* lines 172-176: the dialog entry made from one card *)
dialog_of_card(card) ==
    [text   |-> Get(card, "text", EmptyText),
     answer |-> Get(card, "answer", EmptyText),
     tips   |-> Get(card, "tip", EmptyText)]

(* a variant that keeps the dialogs of the template and appends the cards *)
update_dialog_cards_append(existing_content, new_content_data) ==
    IF "cards" \in DOMAIN new_content_data
    THEN Put(existing_content, "dialogs",
             Get(existing_content, "dialogs", <<>>)
             \o [n \in DOMAIN new_content_data["cards"] |->
                    dialog_of_card(new_content_data["cards"][n])])
    ELSE existing_content

(* update_dialog_cards, lines 159-184 *)
update_dialog_cards(existing_content, new_content_data) ==
    LET withTitle == update_title(existing_content, new_content_data)
        withDescription ==
            IF "description" \in DOMAIN new_content_data
            THEN Put(withTitle, "description", new_content_data["description"])
            ELSE withTitle
        withDialogs ==
            IF "cards" \in DOMAIN new_content_data
            THEN Put(withDescription, "dialogs",
                     [n \in DOMAIN new_content_data["cards"] |->
                         dialog_of_card(new_content_data["cards"][n])])
            ELSE withDescription
    IN  update_behaviour(withDialogs, new_content_data)

(* lines 205-222: one element of a slide *)
element_data(element) ==
    LET box == [x |-> Get(element, "x", 0), y |-> Get(element, "y", 0),
                width |-> Get(element, "width", 50), height |-> Get(element, "height", 50)]
    IN  IF Get(element, "type", "") = "text"
        THEN Put(box, "action", [library |-> "H5P.Text 1.1",
                                 params |-> [text |-> Get(element, "content", "")]])
        ELSE box

(* lines 200-224: one slide *)
slide_data(slide) ==
    [elements |-> IF "elements" \in DOMAIN slide
                  THEN [m \in DOMAIN slide["elements"] |-> element_data(slide["elements"][m])]
                  ELSE <<>>]

(* update_course_presentation, lines 187-229 *)
update_course_presentation(existing_content, new_content_data) ==
    LET presentation == Get(existing_content, "presentation", EmptyDict)
        withTitle == update_title(presentation, new_content_data)
        withSlides ==
            IF "slides" \in DOMAIN new_content_data
            THEN Put(withTitle, "slides",
                     [n \in DOMAIN new_content_data["slides"] |->
                         slide_data(new_content_data["slides"][n])])
            ELSE withTitle
        withDisplay ==
            IF "display" \in DOMAIN new_content_data
            THEN merge_keys(withSlides, new_content_data["display"])
            ELSE withSlides
    IN  Put(existing_content, "presentation", withDisplay)

(* lines 246-254: one answer of the first question *)
answer_data(answer) ==
    LET base == [text |-> Get(answer, "text", ""), correct |-> Get(answer, "correct", FALSE)]
    IN  IF "feedback" \in DOMAIN answer
        THEN Put(base, "tipsAndFeedback", [chosenFeedback |-> answer["feedback"]])
        ELSE base

(* update_multiple_choice, lines 232-261 *)
update_multiple_choice(existing_content, new_content_data) ==
    LET withTitle == update_title(existing_content, new_content_data)
        withQuestion ==
            IF "questions" \in DOMAIN new_content_data /\ new_content_data["questions"] # <<>>
            THEN LET first_question == new_content_data["questions"][1]
                     q == Put(withTitle, "question", Get(first_question, "text", ""))
                 IN  IF "answers" \in DOMAIN first_question
                     THEN Put(q, "answers",
                              [n \in DOMAIN first_question["answers"] |->
                                  answer_data(first_question["answers"][n])])
                     ELSE q
            ELSE withTitle
    IN  update_behaviour(withQuestion, new_content_data)

(* update_fill_blanks, lines 264-282; the joined text is kept as the       *)
(* sequence of the question texts it is joined from                        *)
update_fill_blanks(existing_content, new_content_data) ==
    LET withTitle == update_title(existing_content, new_content_data)
        withText ==
            IF "questions" \in DOMAIN new_content_data
            THEN Put(withTitle, "text",
                     [joined |-> [n \in DOMAIN new_content_data["questions"] |->
                                     Get(new_content_data["questions"][n], "text", "")]])
            ELSE withTitle
    IN  update_behaviour(withText, new_content_data)

(* update_drag_drop, lines 285-289 *)
update_drag_drop(existing_content, new_content_data) ==
    update_title(existing_content, new_content_data)

(* update_memory_game, lines 295-299 *)
update_memory_game(existing_content, new_content_data) ==
    update_title(existing_content, new_content_data)

(* lines 143-147: an unknown kind overwrites the keys both objects have *)
update_common_keys(existing_content, new_content_data) ==
    [k \in DOMAIN existing_content |->
        IF k \in DOMAIN new_content_data THEN new_content_data[k] ELSE existing_content[k]]

(* update_content_json, lines 123-156: the new content.json, or failure    *)
(* when the template's content.json cannot be read                         *)
update_content_json(content_json, new_content_data, content_type) ==
    IF content_json.state # "json"
    THEN [ok |-> FALSE, file |-> content_json]
    ELSE LET existing_content == content_json.data IN
         [ok |-> TRUE,
          file |-> JsonFile(
             IF content_type = "dialog_cards"
             THEN update_dialog_cards(existing_content, new_content_data)
             ELSE IF content_type = "course_presentation"
             THEN update_course_presentation(existing_content, new_content_data)
             ELSE IF content_type = "multiple_choice"
             THEN update_multiple_choice(existing_content, new_content_data)
             ELSE IF content_type = "fill_blanks"
             THEN update_fill_blanks(existing_content, new_content_data)
             ELSE IF content_type = "drag_drop"
             THEN update_drag_drop(existing_content, new_content_data)
             ELSE IF content_type = "memory_game"
             THEN update_memory_game(existing_content, new_content_data)
             ELSE update_common_keys(existing_content, new_content_data))]

(* update_h5p_metadata, lines 304-324 *)
update_h5p_metadata(h5p_json, content_data, content_type) ==
    IF h5p_json.state # "json"
    THEN [ok |-> FALSE, file |-> h5p_json]
    ELSE [ok |-> TRUE, file |-> JsonFile(update_title(h5p_json.data, content_data))]

(***************************************************************************)
(* File names and directories of the packager.                             *)
(***************************************************************************)
ends_with(name, part) == name # <<>> /\ name[Len(name)] = part
contains(name, part) == \E n \in DOMAIN name : name[n] = part

PROGRESS_NAME == <<".media_progress", ".json">>
DOC_NAME == <<"N5_", "lesson", "_", "dialog_cards", ".json">>

(* the input directory of the packager: run_all (lines 43-64) passes the   *)
(* generator's output directory, which holds the content document and the  *)
(* checkpoint file                                                         *)
DirNames ==
    (DOMAIN extraDocs)
    \cup (IF docFile.state # "absent" THEN {DOC_NAME} ELSE {})
    \cup (IF progress_file.state # "absent" THEN {PROGRESS_NAME} ELSE {})

DirFile(name) ==
    IF name = DOC_NAME /\ docFile.state # "absent" THEN docFile
    ELSE IF name = PROGRESS_NAME /\ progress_file.state # "absent" THEN progress_file
    ELSE extraDocs[name]

(* find_json_files, lines 48-54 *)
find_json_files(names) == {name \in names : ends_with(name, ".json")}

(* os.listdir returns the names in arbitrary order *)
Orders(S) == {seq \in [1..Cardinality(S) -> S] : \A a, b \in DOMAIN seq : a # b => seq[a] # seq[b]}

(* the blank marker test of line 75 on the question texts of the model *)
TextsWithMarker == {"Tokyo is the *capital* of Japan"}
has_blank_marker(text) == text \in TextsWithMarker

(* a variant that never finds a keyword in the name *)
first_keyword_none(name, keys) == ""

(* lines 60-62: the first kind, in table order, whose keyword is in the name *)
RECURSIVE first_keyword(_, _)
first_keyword(name, keys) ==
    IF keys = <<>> THEN ""
    ELSE IF contains(name, Head(keys)) THEN Head(keys)
    ELSE first_keyword(name, Tail(keys))

(* a variant that asks every question for an answers key *)
content_type_of_data_every(file) ==
    IF file.state # "json" THEN "dialog_cards"
    ELSE LET data == file.data IN
         IF "cards" \in DOMAIN data THEN "dialog_cards"
         ELSE IF "slides" \in DOMAIN data THEN "course_presentation"
         ELSE IF /\ "questions" \in DOMAIN data
                 /\ data["questions"] # <<>>
                 /\ \A n \in DOMAIN data["questions"] : "answers" \in DOMAIN data["questions"][n]
              THEN "multiple_choice"
         ELSE IF /\ "questions" \in DOMAIN data
                 /\ \E n \in DOMAIN data["questions"] :
                      /\ "text" \in DOMAIN data["questions"][n]
                      /\ has_blank_marker(data["questions"][n]["text"])
              THEN "fill_blanks"
         ELSE "dialog_cards"

(* lines 64-81: the kind inferred from the content; a file that cannot be  *)
(* parsed gives the default                                                *)
content_type_of_data(file) ==
    IF file.state # "json" THEN "dialog_cards"
    ELSE LET data == file.data IN
         IF "cards" \in DOMAIN data THEN "dialog_cards"
         ELSE IF "slides" \in DOMAIN data THEN "course_presentation"
         ELSE IF /\ "questions" \in DOMAIN data
                 /\ \E n \in DOMAIN data["questions"] : "answers" \in DOMAIN data["questions"][n]
              THEN "multiple_choice"
         ELSE IF /\ "questions" \in DOMAIN data
                 /\ \E n \in DOMAIN data["questions"] :
                      /\ "text" \in DOMAIN data["questions"][n]
                      /\ has_blank_marker(data["questions"][n]["text"])
              THEN "fill_blanks"
         ELSE "dialog_cards"

(* determine_content_type, lines 57-81: the kind, and whether the file was *)
(* opened to find it                                                       *)
determine_content_type(name, file) ==
    IF first_keyword(name, CONTENT_TYPE_KEYS) # ""
    THEN [content_type |-> first_keyword(name, CONTENT_TYPE_KEYS), opened |-> FALSE]
    ELSE [content_type |-> content_type_of_data(file), opened |-> TRUE]

(***************************************************************************)
(* find_template_h5p, lines 84-109.  A template is a record [dir, name,    *)
(* zip, content, h5p]: dir is the sub-directory of templates_dir ("" for   *)
(* the top), zip tells whether the archive can be extracted.  The result   *)
(* is the set of templates the function may return (glob and os.walk give  *)
(* no order among siblings; os.walk lists the top directory first).        *)
(***************************************************************************)
(* a variant that looks in the kind's directory only *)
find_template_h5p_direct(content_type, tpls) ==
    {t \in tpls : ends_with(t.name, ".h5p") /\ t.dir = content_type}

find_template_h5p(content_type, tpls) ==
    LET archives == {t \in tpls : ends_with(t.name, ".h5p")}
        direct == {t \in archives : t.dir = content_type}
        named == {t \in archives : contains(t.name, content_type)}
        namedTop == {t \in named : t.dir = ""}
    IN  IF direct # {} THEN direct
        ELSE IF namedTop # {} THEN namedTop
        ELSE IF named # {} THEN named
        ELSE archives

(* line 340: the output name *)
output_name(name) == [n \in DOMAIN name |-> IF name[n] = ".json" THEN ".h5p" ELSE name[n]]

(***************************************************************************)
(* create_h5p_package, lines 327-370, with the template already chosen     *)
(* (template_found = FALSE: find_template_h5p returned None).              *)
(***************************************************************************)
create_h5p_package(file, content_type, template_found, template) ==
    IF ~template_found
    THEN [outcome |-> "no_template", opened |-> FALSE, package |-> NoFile]
    ELSE IF file.state # "json"
    THEN [outcome |-> "exception", opened |-> TRUE, package |-> NoFile]
    ELSE IF template.zip # "ok"
    THEN [outcome |-> "extract_failed", opened |-> TRUE, package |-> NoFile]
    ELSE LET content == update_content_json(template.content, file.data, content_type)
             metadata == update_h5p_metadata(template.h5p, file.data, content_type)
         IN  IF ~content.ok
             THEN [outcome |-> "content_failed", opened |-> TRUE, package |-> NoFile]
             ELSE IF ~metadata.ok
             THEN [outcome |-> "metadata_failed", opened |-> TRUE, package |-> NoFile]
             ELSE [outcome |-> "packaged", opened |-> TRUE,
                   package |-> [state |-> "archive", content |-> content.file.data,
                                h5p |-> metadata.file.data,
                                assets |-> template.assets,
                                template |-> [dir |-> template.dir, name |-> template.name]]]

(* lines 340-341 and 362-367: the archive is written at                    *)
(* <output_dir>/<output name>; a file already at that path is replaced,    *)
(* also when that file is an archive of the templates directory            *)
write_archive(tpls, dir, name, package) ==
    LET replaced == {t \in tpls : t.dir = dir /\ t.name = name}
    IN  IF replaced = {} THEN tpls
        ELSE (tpls \ replaced)
             \cup {[dir |-> dir, name |-> name, zip |-> "ok",
                    content |-> JsonFile(package.content), h5p |-> JsonFile(package.h5p),
                    assets |-> package.assets]}

(* a variant that stops the loop at the first document that fails *)
remaining_after_abort(outcome, files) ==
    IF outcome = "packaged" THEN Tail(files) ELSE <<>>

(* lines 387-399: whatever create_h5p_package returned or raised, the loop *)
(* goes on with the next file                                              *)
remaining_after(outcome, files) == Tail(files)

(***************************************************************************)
(* json_to_h5p.main, lines 373-401.                                        *)
(***************************************************************************)
PackagerStart ==
    /\ pc = "idle"
    /\ \E order \in Orders(find_json_files(DirNames)) :
         /\ json_files' = order
         /\ pc' = IF order = <<>> THEN "pack_done" ELSE "pack"
         /\ pk_exit' = IF order = <<>> THEN "zero" ELSE pk_exit
    /\ UNCHANGED <<otherVars, input, genVars_noPc, extraDocs, templates, packages, opened, pk_log,
                   output_dir>>

(* one iteration of the loop of lines 387-399 *)
PackOne ==
    /\ pc = "pack"
    /\ json_files # <<>>
    /\ LET name == Head(json_files)
           file == DirFile(name)
           kind == determine_content_type(name, file)
           candidates == find_template_h5p(kind.content_type, templates)
       IN  \E template \in (IF candidates = {} THEN {NoFile} ELSE candidates) :
             LET r == create_h5p_package(file, kind.content_type, candidates # {}, template) IN
             /\ opened' = opened \cup (IF kind.opened \/ r.opened THEN {name} ELSE {})
             /\ packages' = IF r.outcome = "packaged"
                            THEN Put(packages, output_name(name), r.package)
                            ELSE packages
             /\ templates' = IF r.outcome = "packaged"
                             THEN write_archive(templates, output_dir, output_name(name), r.package)
                             ELSE templates
             /\ pk_log' = Append(pk_log, [file |-> name, content_type |-> kind.content_type,
                                          template |-> IF candidates = {} THEN Null
                                                       ELSE [dir |-> template.dir,
                                                             name |-> template.name],
                                          inspected |-> kind.opened,
                                          outcome |-> r.outcome, package |-> r.package])
             /\ json_files' = remaining_after(r.outcome, json_files)
    /\ UNCHANGED <<otherVars, input, genVars_noPc, pc, extraDocs, output_dir, pk_exit>>

(* line 401: the loop is over *)
PackDone ==
    /\ pc = "pack"
    /\ json_files = <<>>
    /\ pc' = "pack_done"
    /\ pk_exit' = "zero"
    /\ UNCHANGED <<otherVars, input, genVars_noPc, extraDocs, templates, json_files, packages, opened,
                   pk_log, output_dir>>

(***************************************************************************)
(* The templates directory of the chained run: one dialog-cards template.  *)
(***************************************************************************)
TemplateTitle == "template title"

DialogCardsTemplate ==
    [dir |-> "dialog_cards", name |-> <<"H5P.DialogCards", ".h5p">>, zip |-> "ok",
     content |-> JsonFile([title |-> TemplateTitle,
                           description |-> "template description",
                           dialogs |-> <<[text |-> Plain("template front"),
                                          answer |-> Plain("template back"),
                                          tips |-> EmptyText]>>,
                           behaviour |-> [enableRetry |-> TRUE, randomCards |-> FALSE],
                           mode |-> "normal"]),
     h5p |-> JsonFile([title |-> TemplateTitle, language |-> "und",
                       mainLibrary |-> "H5P.DialogCards", embedTypes |-> "div"]),
     assets |-> {}]

GenInit ==
    /\ imgFiles = {}
    /\ audFiles = {}
    /\ progress_file = NoFile
    /\ docFile = NoFile
    /\ pc = "idle"
    /\ caller = "direct"
    /\ characters = <<>>
    /\ characters_to_process = <<>>
    /\ i = 0
    /\ j = 1
    /\ char_result = EmptyDict
    /\ results = EmptyDict
    /\ processed_chars = EmptyDict
    /\ loaded = EmptyDict
    /\ remote = {}
    /\ invoked = {}
    /\ sleeps = 0
    /\ media_trace = <<>>
    /\ lastEnd = "none"
    /\ prev = <<>>

vars == <<input, genVars, packVars, otherVars>>

PackInit ==
    /\ json_files = <<>>
    /\ packages = EmptyDict
    /\ opened = {}
    /\ pk_log = <<>>
    /\ pk_exit = "running"

(* run_all, line 35: the default output directory of the packager *)
OutDir == "h5p_output"

(* the uploader has not been started *)
UpIdle ==
    /\ h5p_dir = EmptyDict
    /\ config = Null
    /\ up_pc = "idle"
    /\ h5p_files = <<>>
    /\ found = <<>>
    /\ item_id = Null
    /\ successful_uploads = 0
    /\ failed_uploads = 0
    /\ up_trace = <<>>
    /\ up_exit = "running"

(* call_gpt4o has not been called *)
GptIdle ==
    /\ gpt_pc = "idle"
    /\ prompt = ""
    /\ attempt = 0
    /\ retry_delay = 0
    /\ gpt_trace = <<>>
    /\ gpt_result = Null

(* generate_audio has not been called *)
AudioIdle ==
    /\ au_pc = "idle"
    /\ character = ""
    /\ au_files = {}
    /\ au_failed_at = ""
    /\ au_ret = "none"

(***************************************************************************)
(* Inputs of the packager run on a directory of hand-made documents.       *)
(***************************************************************************)
MaxCards == 2

Restrict(d, keys) == [k \in (DOMAIN d) \cap keys |-> d[k]]

(* a card as save_json_content writes it when both media were produced *)
full_card(c) ==
    annotate_card(test_card(c),
                  Put(EmptyDict, c, [char_image |-> image_path_generated(c),
                                     audio |-> audio_path_generated(c)]))

CardFieldSets ==
    {{}, {"text", "answer"}, {"text", "answer", "tip"}, {"answer", "tip", "image"},
     {"text", "answer", "tip", "image", "audio"}}

Cards == {Restrict(full_card(c), F) : c \in {HIRA_A, KATA_WI}, F \in CardFieldSets}

DocShells ==
    {EmptyDict,
     [title |-> "lesson title"],
     [title |-> "lesson title", description |-> "lesson description",
      behaviour |-> [randomCards |-> TRUE]],
     [description |-> "lesson description", mode |-> "document mode",
      behaviour |-> [randomCards |-> TRUE, scaleTextNotCard |-> FALSE]]}

DialogDocuments ==
    DocShells \cup {Put(shell, "cards", cards) : shell \in DocShells, cards \in SeqsUpTo(Cards, MaxCards)}

SlideDocuments ==
    {[title |-> "lesson title",
      slides |-> <<[elements |-> <<[type |-> "text", content |-> "hello", x |-> 10],
                                   [type |-> "image", width |-> 30]>>],
                   EmptyDict>>,
      display |-> [keywordListEnabled |-> FALSE]],
     [slides |-> <<>>, override |-> "document override"]}

MaxQuestions == 2

(* questions with and without answers, with and without a blank marker *)
Questions ==
    {[text |-> "Which one is a?", answers |-> <<[text |-> "a", correct |-> TRUE]>>],
     [text |-> "Tokyo is the *capital* of Japan", answers |-> <<[text |-> "i"]>>],
     [text |-> "Tokyo is the *capital* of Japan"],
     [text |-> "Which one is a?"],
     [answers |-> <<>>]}

QuestionDocuments ==
    {[title |-> "lesson title",
      questions |-> <<[text |-> "Which one is a?",
                       answers |-> <<[text |-> "a", correct |-> TRUE, feedback |-> "yes"],
                                     [text |-> "i"]>>],
                      [text |-> "Tokyo is the *capital* of Japan"]>>,
      behaviour |-> [enableRetry |-> FALSE]],
     [questions |-> <<[text |-> "Tokyo is the *capital* of Japan"]>>, l10n |-> "document labels"],
     [questions |-> <<>>]}
    \cup {[questions |-> qs] : qs \in SeqsUpTo(Questions, MaxQuestions)}

Documents == DialogDocuments \cup SlideDocuments \cup QuestionDocuments

JsonNames ==
    {<<"N5_", "lesson", "_", CONTENT_TYPE_KEYS[n], ".json">> : n \in DOMAIN CONTENT_TYPE_KEYS}
    \cup {<<"lesson", ".json">>, <<"N5_", "multiple_choice", "_", "dialog_cards", ".json">>}

OneFile(name, file) == Put(EmptyDict, name, file)

PackDirectories ==
    {EmptyDict, OneFile(<<"notes", ".txt">>, JsonFile(EmptyDict))}
    \cup {OneFile(name, JsonFile(doc)) : name \in JsonNames, doc \in Documents}
    \cup {OneFile(name, Corrupt) : name \in JsonNames}
    \cup {Put(OneFile(<<"broken", ".json">>, Corrupt), <<"lesson", ".json">>,
               JsonFile([title |-> "lesson title", cards |-> <<full_card(HIRA_A)>>])),
          Put(OneFile(<<"N5_", "lesson", "_", "drag_drop", ".json">>, JsonFile([title |-> "drag"])),
              <<"lesson", ".json">>,
              JsonFile([title |-> "lesson title", cards |-> <<full_card(KATA_WI)>>]))}

PresentationTemplate ==
    [dir |-> "course_presentation", name |-> <<"H5P.CoursePresentation", ".h5p">>, zip |-> "ok",
     content |-> JsonFile([presentation |-> [title |-> TemplateTitle,
                                             slides |-> <<[elements |-> <<>>]>>,
                                             keywordListEnabled |-> TRUE,
                                             globalBackgroundSelector |-> "template background"],
                           override |-> "template override"]),
     h5p |-> JsonFile([title |-> TemplateTitle, language |-> "und",
                       mainLibrary |-> "H5P.CoursePresentation", embedTypes |-> "div"]),
     assets |-> {}]

QuizTemplate ==
    [dir |-> "", name |-> <<"quiz_", "multiple_choice", "_", "fill_blanks", ".h5p">>, zip |-> "ok",
     content |-> JsonFile([title |-> TemplateTitle, question |-> "template question",
                           answers |-> <<[text |-> "template answer", correct |-> TRUE]>>,
                           text |-> [joined |-> <<"template *blank*">>],
                           behaviour |-> [enableRetry |-> TRUE, randomAnswers |-> TRUE],
                           l10n |-> "template labels"]),
     h5p |-> JsonFile([title |-> TemplateTitle, language |-> "und",
                       mainLibrary |-> "H5P.MultiChoice", embedTypes |-> "div"]),
     assets |-> {}]

BrokenTemplate ==
    [dir |-> "drag_drop", name |-> <<"H5P.DragQuestion", ".h5p">>, zip |-> "bad",
     content |-> NoFile, h5p |-> NoFile, assets |-> {}]

(* a template whose asset folder holds a vector image that its content     *)
(* descriptor refers to                                                    *)
CardBackVector == [dir |-> "images", stem |-> "card_back", ext |-> ".svg"]
CardFrontRaster == [dir |-> "images", stem |-> "card_front", ext |-> ".png"]

MemoryGameTemplate ==
    [dir |-> "memory_game", name |-> <<"H5P.MemoryGame", ".h5p">>, zip |-> "ok",
     content |-> JsonFile([title |-> TemplateTitle, image |-> [path |-> CardBackVector]]),
     h5p |-> JsonFile([title |-> TemplateTitle, language |-> "und",
                       mainLibrary |-> "H5P.MemoryGame", embedTypes |-> "div"]),
     assets |-> {CardBackVector, CardFrontRaster}]

(* a file of the templates directory that is not an archive *)
ReadmeFile ==
    [dir |-> "dialog_cards", name |-> <<"README", ".md">>, zip |-> "bad",
     content |-> NoFile, h5p |-> NoFile, assets |-> {}]

TemplateConfigs ==
    {{}, {ReadmeFile}, {DialogCardsTemplate, ReadmeFile}, {PresentationTemplate, QuizTemplate},
     {DialogCardsTemplate, PresentationTemplate, QuizTemplate, BrokenTemplate, MemoryGameTemplate}}

InitPack ==
    /\ input = <<>>
    /\ GenInit
    /\ PackInit
    /\ extraDocs \in PackDirectories
    /\ templates \in TemplateConfigs
    /\ output_dir = OutDir
    /\ UpIdle
    /\ GptIdle
    /\ AudioIdle

NextPack ==
    \/ PackagerStart
    \/ PackOne
    \/ PackDone

SpecPack == InitPack /\ [][NextPack]_vars

(***************************************************************************)
(* The packager with --output_dir anywhere: the default directory, a kind  *)
(* directory of templates_dir, or templates_dir itself.                    *)
(***************************************************************************)
OutputDirs == {OutDir, "dialog_cards", ""}

DirsNames ==
    {<<"lesson", ".json">>, <<"H5P.DialogCards", ".json">>,
     <<"quiz_", "multiple_choice", "_", "fill_blanks", ".json">>}

DirsDocuments ==
    DocShells \cup {Put(shell, "cards", cards) : shell \in DocShells, cards \in SeqsUpTo(Cards, 1)}

DirsDirectories ==
    {OneFile(name, JsonFile(doc)) : name \in DirsNames, doc \in DirsDocuments}
    \cup {OneFile(name, Corrupt) : name \in DirsNames}
    \cup {Put(OneFile(<<"H5P.DialogCards", ".json">>, JsonFile([title |-> "lesson title"])),
               <<"lesson", ".json">>,
               JsonFile([title |-> "other title", cards |-> <<full_card(HIRA_A)>>]))}

InitDirs ==
    /\ input = <<>>
    /\ GenInit
    /\ PackInit
    /\ extraDocs \in DirsDirectories
    /\ templates \in {{DialogCardsTemplate}, {DialogCardsTemplate, QuizTemplate}}
    /\ output_dir \in OutputDirs
    /\ UpIdle
    /\ GptIdle
    /\ AudioIdle

SpecDirs == InitDirs /\ [][NextPack]_vars

(***************************************************************************)
(* upload_to_moodle.py.  The directory given by --h5p_dir maps an entry    *)
(* name to what the entry is; os.listdir lists files and directories       *)
(* alike.  The replies of the server are inputs of each step.              *)
(***************************************************************************)
MaxArchives == 2

StemList == <<"lesson_a", "lesson_b", "lesson_c", "lesson_d">>
ArchiveNames == {<<StemList[n], ".h5p">> : n \in 1..MaxArchives}
UploadNames == ArchiveNames \cup {<<"notes", ".txt">>}

UploadDirectories ==
    UNION {[names -> {[is_file |-> TRUE], [is_file |-> FALSE]}] : names \in SUBSET UploadNames}

(* get_config, lines 54-67: None when a required variable is not set *)
Configs ==
    {Null, [moodle_url |-> "https://moodle.example", token |-> "token", course_id |-> "2",
            section_id |-> "0"]}

(* find_h5p_files, lines 45-51 *)
find_h5p_files(names) == {name \in names : ends_with(name, ".h5p")}

(* check_api_access, lines 161-186: True only for a 200 reply that parses  *)
(* and has no exception field                                              *)
CheckOutcomes == {"ok", "exception_field", "status", "bad_json", "raised"}

(* a variant that takes every reply of the server as access *)
check_api_access_any(outcome) == outcome # "raised"

check_api_access(outcome) == outcome = "ok"

(* upload_file_to_moodle, lines 88-108, once the file is open: the item of *)
(* a 200 reply holding a non-empty list, None otherwise                    *)
UploadOutcomes == {"item", "falsy_item", "empty_list", "bad_json", "status", "raised"}

(* a variant that takes every reply as an uploaded item *)
upload_file_to_moodle_any(file, outcome) == [item |-> file]

upload_file_to_moodle(file, outcome) ==
    IF outcome = "item" THEN [item |-> file] ELSE Null

(* create_h5p_activity, lines 136-158: the activity id of a 200 reply      *)
(* without exception field, None otherwise                                 *)
CreateOutcomes == {"created", "no_id", "exception_field", "bad_json", "status", "raised"}

create_h5p_activity(item, outcome) ==
    IF outcome = "created" THEN [h5pactivityid |-> item] ELSE Null

(* lines 189-196 *)
UpStart ==
    /\ up_pc = "idle"
    /\ up_pc' = IF config = Null THEN "done" ELSE "check"
    /\ up_exit' = IF config = Null THEN "zero" ELSE up_exit
    /\ UNCHANGED <<input, genVars, packVars, gptVars, audioVars, h5p_dir, config, h5p_files, found, item_id,
                   successful_uploads, failed_uploads, up_trace>>

(* lines 208-211 *)
CheckAccess ==
    /\ up_pc = "check"
    /\ \E outcome \in CheckOutcomes :
         /\ up_trace' = Append(up_trace, [call |-> "check", file |-> <<>>, item |-> Null,
                                          outcome |-> outcome])
         /\ up_pc' = IF check_api_access(outcome) THEN "list" ELSE "done"
         /\ up_exit' = IF check_api_access(outcome) THEN up_exit ELSE "zero"
    /\ UNCHANGED <<input, genVars, packVars, gptVars, audioVars, h5p_dir, config, h5p_files, found, item_id,
                   successful_uploads, failed_uploads>>

(* lines 213-221 *)
ListArchives ==
    /\ up_pc = "list"
    /\ \E order \in Orders(find_h5p_files(DOMAIN h5p_dir)) :
         /\ h5p_files' = order
         /\ found' = order
         /\ up_pc' = IF order = <<>> THEN "done" ELSE "loop"
         /\ up_exit' = IF order = <<>> THEN "zero" ELSE up_exit
    /\ successful_uploads' = 0
    /\ failed_uploads' = 0
    /\ UNCHANGED <<input, genVars, packVars, gptVars, audioVars, h5p_dir, config, item_id, up_trace>>

(* lines 223-232.  open(file_path, 'rb') at line 85 is outside the try of  *)
(* upload_file_to_moodle: on an entry that is not a file it raises, and    *)
(* nothing in main catches it.                                             *)
UploadStep ==
    /\ up_pc = "loop"
    /\ h5p_files # <<>>
    /\ LET file == Head(h5p_files) IN
       IF ~h5p_dir[file].is_file
       THEN /\ up_pc' = "done"
            /\ up_exit' = "nonzero"
            /\ UNCHANGED <<h5p_files, item_id, failed_uploads, up_trace>>
       ELSE \E outcome \in UploadOutcomes :
              LET item == upload_file_to_moodle(file, outcome) IN
              /\ up_trace' = Append(up_trace, [call |-> "upload", file |-> file, item |-> Null,
                                               outcome |-> outcome])
              /\ item_id' = item
              /\ IF item = Null
                 THEN /\ failed_uploads' = failed_uploads + 1
                      /\ h5p_files' = Tail(h5p_files)
                      /\ up_pc' = "loop"
                 ELSE /\ up_pc' = "create"
                      /\ UNCHANGED <<h5p_files, failed_uploads>>
              /\ UNCHANGED up_exit
    /\ UNCHANGED <<input, genVars, packVars, gptVars, audioVars, h5p_dir, config, found, successful_uploads>>

(* lines 234-247 *)
CreateStep ==
    /\ up_pc = "create"
    /\ \E outcome \in CreateOutcomes :
         LET h5p_id == create_h5p_activity(item_id, outcome) IN
         /\ up_trace' = Append(up_trace, [call |-> "create", file |-> Head(h5p_files),
                                          item |-> item_id, outcome |-> outcome])
         /\ successful_uploads' = IF h5p_id # Null THEN successful_uploads + 1
                                  ELSE successful_uploads
         /\ failed_uploads' = IF h5p_id # Null THEN failed_uploads ELSE failed_uploads + 1
    /\ up_pc' = "sleep"
    /\ UNCHANGED <<input, genVars, packVars, gptVars, audioVars, h5p_dir, config, h5p_files, found, item_id,
                   up_exit>>

(* lines 249-250 *)
SleepStep ==
    /\ up_pc = "sleep"
    /\ up_trace' = Append(up_trace, [call |-> "sleep", file |-> Head(h5p_files), item |-> Null,
                                     outcome |-> "1"])
    /\ h5p_files' = Tail(h5p_files)
    /\ up_pc' = "loop"
    /\ UNCHANGED <<input, genVars, packVars, gptVars, audioVars, h5p_dir, config, found, item_id,
                   successful_uploads, failed_uploads, up_exit>>

(* lines 252-253: the loop is over, main returns *)
UpDone ==
    /\ up_pc = "loop"
    /\ h5p_files = <<>>
    /\ up_pc' = "done"
    /\ up_exit' = "zero"
    /\ UNCHANGED <<input, genVars, packVars, gptVars, audioVars, h5p_dir, config, h5p_files, found, item_id,
                   successful_uploads, failed_uploads, up_trace>>

InitUpload ==
    /\ input = <<>>
    /\ GenInit
    /\ PackInit
    /\ extraDocs = EmptyDict
    /\ templates = {}
    /\ output_dir = OutDir
    /\ GptIdle
    /\ AudioIdle
    /\ h5p_dir \in UploadDirectories
    /\ config \in Configs
    /\ up_pc = "idle"
    /\ h5p_files = <<>>
    /\ found = <<>>
    /\ item_id = Null
    /\ successful_uploads = 0
    /\ failed_uploads = 0
    /\ up_trace = <<>>
    /\ up_exit = "running"

NextUpload ==
    \/ UpStart
    \/ CheckAccess
    \/ ListArchives
    \/ UploadStep
    \/ CreateStep
    \/ SleepStep
    \/ UpDone

SpecUpload == InitUpload /\ [][NextUpload]_vars

(***************************************************************************)
(* call_gpt4o, lines 823-847.  Each attempt either returns a completion or *)
(* raises; what the service does is an input of the attempt.               *)
(***************************************************************************)
max_retries == 3
initial_retry_delay == 5

Prompts == {"dialog_cards prompt", "multiple_choice prompt"}
Completions == {"json in a fence", "bare json"}
CompletionErrors == {"timeout", "rate limit", "no choices"}

AttemptOutcomes ==
    {[ok |-> TRUE, value |-> c] : c \in Completions}
    \cup {[ok |-> FALSE, value |-> e] : e \in CompletionErrors}

(* a variant that waits the same time before every retry *)
next_retry_delay_same(delay) == delay

(* line 844 *)
next_retry_delay(delay) == delay * 2

(* line 842: whether a failed attempt is followed by another one *)
retries_left(n) == n < max_retries - 1

(* lines 825-828 *)
CallGpt ==
    /\ gpt_pc = "idle"
    /\ attempt' = 0
    /\ retry_delay' = initial_retry_delay
    /\ gpt_pc' = "attempt"
    /\ UNCHANGED <<input, genVars, packVars, upVars, audioVars, prompt, gpt_trace, gpt_result>>

(* lines 829-847 up to the sleep: one attempt *)
Attempt ==
    /\ gpt_pc = "attempt"
    /\ \E outcome \in AttemptOutcomes :
         /\ gpt_trace' = Append(gpt_trace, [step |-> "attempt", n |-> attempt,
                                            ok |-> outcome.ok, value |-> outcome.value])
         /\ IF outcome.ok
            THEN /\ gpt_result' = [returned |-> outcome.value]
                 /\ gpt_pc' = "returned"
            ELSE IF retries_left(attempt)
            THEN /\ gpt_pc' = "wait"
                 /\ UNCHANGED gpt_result
            ELSE /\ gpt_result' = [raised |-> outcome.value]
                 /\ gpt_pc' = "raised"
    /\ UNCHANGED <<input, genVars, packVars, upVars, audioVars, prompt, attempt, retry_delay>>

(* lines 843-844 and the next turn of the loop of line 828 *)
Wait ==
    /\ gpt_pc = "wait"
    /\ gpt_trace' = Append(gpt_trace, [step |-> "sleep", n |-> attempt, ok |-> FALSE,
                                       value |-> retry_delay])
    /\ retry_delay' = next_retry_delay(retry_delay)
    /\ attempt' = attempt + 1
    /\ gpt_pc' = "attempt"
    /\ UNCHANGED <<input, genVars, packVars, upVars, audioVars, prompt, gpt_result>>

InitGpt ==
    /\ input = <<>>
    /\ GenInit
    /\ PackInit
    /\ extraDocs = EmptyDict
    /\ templates = {}
    /\ output_dir = OutDir
    /\ UpIdle
    /\ AudioIdle
    /\ gpt_pc = "idle"
    /\ prompt \in Prompts
    /\ attempt = 0
    /\ retry_delay = 0
    /\ gpt_trace = <<>>
    /\ gpt_result = Null

NextGpt ==
    \/ CallGpt
    \/ Attempt
    \/ Wait

SpecGpt == InitGpt /\ [][NextGpt]_vars

(***************************************************************************)
(* generate_audio(character, output_path, include_example=True), lines     *)
(* 360-421, statement by statement.  The files are output_path, which is   *)
(* audios/<audio_name>, and the two clips char_path and word_path next to  *)
(* it (lines 368, 385).  Every remote call and every file operation either *)
(* succeeds or raises; the exception handler deletes the clips that exist. *)
(* generate_media_batch calls the function only when output_path is absent *)
(* (line 959).                                                             *)
(***************************************************************************)
AudioChars == {HIRA_A, KATA_WI}

AudioFile(c, path) == [char |-> c, path |-> path]

(* a variant whose handler leaves the clips *)
remove_clips_none(files, c) == files

(* lines 416-420, and 404-405 on the success path *)
remove_clips(files, c) == files \ {AudioFile(c, "char_path"), AudioFile(c, "word_path")}

(* an exception is caught at line 413 *)
Raise(step) ==
    /\ au_pc' = "except"
    /\ au_failed_at' = step

(* line 961: the call *)
CallAudio ==
    /\ au_pc \in {"idle", "returned"}
    /\ \E c \in AudioChars :
         /\ AudioFile(c, "output_path") \notin au_files
         /\ character' = c
    /\ au_pc' = "tts_char"
    /\ au_failed_at' = ""
    /\ au_ret' = "none"
    /\ UNCHANGED <<input, genVars, packVars, upVars, gptVars, au_files>>

(* lines 372-377: speech for the character *)
TtsChar ==
    /\ au_pc = "tts_char"
    /\ \/ au_pc' = "write_char" /\ UNCHANGED au_failed_at
       \/ Raise("tts_char")
    /\ UNCHANGED <<input, genVars, packVars, upVars, gptVars, character, au_files, au_ret>>

(* lines 378-383: the clip of the character is written; open() creates the *)
(* file before a write can fail                                            *)
WriteChar ==
    /\ au_pc = "write_char"
    /\ au_files' = au_files \cup {AudioFile(character, "char_path")}
    /\ \/ /\ au_pc' = IF get_example_word(character) # "" THEN "tts_word" ELSE "rename"
          /\ UNCHANGED au_failed_at
       \/ Raise("write_char")
    /\ UNCHANGED <<input, genVars, packVars, upVars, gptVars, character, au_ret>>

(* lines 386-391: speech for the example word *)
TtsWord ==
    /\ au_pc = "tts_word"
    /\ \/ au_pc' = "write_word" /\ UNCHANGED au_failed_at
       \/ Raise("tts_word")
    /\ UNCHANGED <<input, genVars, packVars, upVars, gptVars, character, au_files, au_ret>>

(* lines 392-393 *)
WriteWord ==
    /\ au_pc = "write_word"
    /\ au_files' = au_files \cup {AudioFile(character, "word_path")}
    /\ \/ au_pc' = "concat" /\ UNCHANGED au_failed_at
       \/ Raise("write_word")
    /\ UNCHANGED <<input, genVars, packVars, upVars, gptVars, character, au_ret>>

(* lines 398-401: the clips are decoded and joined in memory *)
Concat ==
    /\ au_pc = "concat"
    /\ \/ au_pc' = "export" /\ UNCHANGED au_failed_at
       \/ Raise("concat")
    /\ UNCHANGED <<input, genVars, packVars, upVars, gptVars, character, au_files, au_ret>>

(* line 402: the export writes output_path; when it raises the file may or *)
(* may not have been created                                               *)
Export ==
    /\ au_pc = "export"
    /\ \/ /\ au_files' = au_files \cup {AudioFile(character, "output_path")}
          /\ au_pc' = "remove"
          /\ UNCHANGED au_failed_at
       \/ /\ au_files' \in {au_files, au_files \cup {AudioFile(character, "output_path")}}
          /\ Raise("export")
    /\ UNCHANGED <<input, genVars, packVars, upVars, gptVars, character, au_ret>>

(* lines 404-406 and 411 *)
RemoveClips ==
    /\ au_pc = "remove"
    /\ au_files' = remove_clips(au_files, character)
    /\ au_ret' = "true"
    /\ au_pc' = "returned"
    /\ UNCHANGED <<input, genVars, packVars, upVars, gptVars, character, au_failed_at>>

(* lines 409 and 411: without an example word the clip becomes the target *)
Rename ==
    /\ au_pc = "rename"
    /\ \/ /\ au_files' = (au_files \ {AudioFile(character, "char_path")})
                              \cup {AudioFile(character, "output_path")}
          /\ au_ret' = "true"
          /\ au_pc' = "returned"
          /\ UNCHANGED au_failed_at
       \/ /\ Raise("rename")
          /\ UNCHANGED <<au_files, au_ret>>
    /\ UNCHANGED <<input, genVars, packVars, upVars, gptVars, character>>

(* lines 413-421 *)
Except ==
    /\ au_pc = "except"
    /\ au_files' = remove_clips(au_files, character)
    /\ au_ret' = "false"
    /\ au_pc' = "returned"
    /\ UNCHANGED <<input, genVars, packVars, upVars, gptVars, character, au_failed_at>>

(* the process is terminated inside generate_audio: the files stay *)
KillAudio ==
    /\ au_pc \notin {"idle", "returned"}
    /\ au_pc' = "idle"
    /\ au_failed_at' = ""
    /\ UNCHANGED <<input, genVars, packVars, upVars, gptVars, character, au_files, au_ret>>

InitAudio ==
    /\ input = <<>>
    /\ GenInit
    /\ PackInit
    /\ extraDocs = EmptyDict
    /\ templates = {}
    /\ output_dir = OutDir
    /\ UpIdle
    /\ GptIdle
    /\ AudioIdle

NextAudio ==
    \/ CallAudio
    \/ TtsChar
    \/ WriteChar
    \/ TtsWord
    \/ WriteWord
    \/ Concat
    \/ Export
    \/ RemoveClips
    \/ Rename
    \/ Except
    \/ KillAudio

SpecAudio == InitAudio /\ [][NextAudio]_vars

(* the chained pipeline on an empty output directory *)
Init ==
    /\ input \in CharLists
    /\ GenInit
    /\ PackInit
    /\ extraDocs = EmptyDict
    /\ templates = {DialogCardsTemplate}
    /\ output_dir = OutDir
    /\ UpIdle
    /\ GptIdle
    /\ AudioIdle

Next ==
    \/ CallBatch
    \/ CallFromSave
    \/ NextChar
    \/ ImageStep
    \/ AudioStep
    \/ StoreResult
    \/ DumpProgress
    \/ EndOfBatch
    \/ Return
    \/ AnnotateAndSave
    \/ Exit
    \/ SaveWithoutMedia
    \/ Crash
    \/ PackagerStart
    \/ PackOne
    \/ PackDone

Spec == Init /\ [][Next]_vars

(***************************************************************************)
(* Properties of the batch orchestrator.                                   *)
(***************************************************************************)
InCall == pc \in {"loop", "image", "audio", "store", "dump"}
AboutToReturn == pc = "loop" /\ ~MoreBatches
SecondCall == InCall /\ prev # <<>> /\ prev[1].S = characters

(* C1: a call of generate_media_batch(S, D) that follows a completed call  *)
(* with the same S and D makes no remote call (text completion, image      *)
(* generation, download or speech).                                        *)
C1_SecondCallNoRemote == SecondCall => remote = {}

(* the second call is about to return; the first call had recorded a       *)
(* failed generation (null), which the second call did not retry           *)
C1_Witness ==
    /\ SecondCall
    /\ AboutToReturn
    /\ \E c \in Range(characters) :
         /\ c \in DOMAIN processed_chars
         /\ processed_chars[c]["char_image"] = Null

(* C2: the mapping returned by the second call with the same S and D       *)
(* equals the mapping returned by the first call.                          *)
C2_SecondCallSameMapping == (SecondCall /\ AboutToReturn) => results = prev[1].ret

(* C3: in an invocation that follows an interrupted run, a generator is    *)
(* never invoked for a glyph that is already in the progress map (even     *)
(* with a null result), and the entries that were checkpointed are still   *)
(* in the progress map, and in the file when the call returns, unchanged.  *)
C3_ResumeNeverRegenerates ==
    (lastEnd = "crashed" /\ InCall) =>
        /\ (pc \in {"audio", "store"} /\ invoked # {}) => char \notin DOMAIN processed_chars
        /\ \A c \in DOMAIN loaded : c \in DOMAIN processed_chars /\ processed_chars[c] = loaded[c]
        /\ AboutToReturn =>
             \A c \in DOMAIN loaded :
                /\ progress_file.state = "json"
                /\ c \in DOMAIN progress_file.data
                /\ progress_file.data[c] = loaded[c]

(* C4: while generate_media_batch runs, every symbol whose loop body has   *)
(* finished (with a result, a null result or a caught exception) has an    *)
(* entry in the checkpoint file on disk.                                   *)
C4_CheckpointAfterEverySymbol ==
    InCall =>
        \A n \in DOMAIN Finished :
            /\ progress_file.state = "json"
            /\ Finished[n] \in DOMAIN progress_file.data

(* C5: an exception raised while one symbol is processed never leaves      *)
(* generate_media_batch; that symbol's result is {char_image: null,        *)
(* audio: null} and every later symbol of the list is processed, so that   *)
(* the returned mapping has an entry for every symbol of the list.         *)
C5_ExceptionIsolated ==
    /\ pc # "raised"
    /\ InCall =>
         \A n \in DOMAIN Finished :
            /\ Finished[n] \in DOMAIN results
            /\ str_len(Finished[n]) # 1 => results[Finished[n]] = exception_result
    /\ AboutToReturn => Finished = characters_to_process

(* a symbol after the entry that raised was processed and has its media *)
C5_Witness ==
    /\ AboutToReturn
    /\ \E m, n \in DOMAIN characters_to_process :
         /\ m < n
         /\ str_len(characters_to_process[m]) # 1
         /\ results[characters_to_process[m]] = exception_result
         /\ str_len(characters_to_process[n]) = 1
         /\ results[characters_to_process[n]]["char_image"] # Null

(* C6: in the document written by save_json_content, every single-symbol   *)
(* card carries the image path and the audio path of its symbol whenever   *)
(* the checkpoint records that the medium was produced.                    *)
media_recorded(c, key) ==
    /\ progress_file.state = "json"
    /\ c \in DOMAIN progress_file.data
    /\ progress_file.data[c][key] # Null

C6_CardsCarryMedia ==
    pc = "saved" =>
        \A n \in DOMAIN docFile.data["cards"] :
            LET card == docFile.data["cards"][n]
                c == input[n]
            IN  str_len(c) = 1 =>
                  /\ media_recorded(c, "char_image") =>
                       /\ "image" \in DOMAIN card
                       /\ card["image"].path = RelPath("images", char_img_name(c))
                  /\ media_recorded(c, "audio") =>
                       /\ "audio" \in DOMAIN card
                       /\ card["audio"].path = RelPath("audios", audio_name(c))

(***************************************************************************)
(* Properties of the packager.                                             *)
(***************************************************************************)

(* C7: the packager never opens the checkpoint file .media_progress.json   *)
(* and never packages it as a content document.                            *)
C7_ProgressFileNotRead ==
    /\ PROGRESS_NAME \notin opened
    /\ output_name(PROGRESS_NAME) \notin DOMAIN packages

(* the log entries of the documents that were packaged as dialog cards *)
PackagedDialogs ==
    {n \in DOMAIN pk_log : pk_log[n].outcome = "packaged" /\ pk_log[n].content_type = "dialog_cards"}
Packaged == {n \in DOMAIN pk_log : pk_log[n].outcome = "packaged"}

DocumentOf(n) == DirFile(pk_log[n].file).data
PackageOf(n) == packages[output_name(pk_log[n].file)]
TemplateOf(n) ==
    CHOOSE t \in templates : t.dir = PackageOf(n).template.dir /\ t.name = PackageOf(n).template.name

(* C8: a document with K cards packaged as dialog cards gives a content    *)
(* descriptor whose dialogs list has exactly K entries, in card order,     *)
(* with the text and the answer of the card (empty when the card has       *)
(* none); the dialogs of the template are gone.                            *)
C8_DialogsFromCards ==
    \A n \in PackagedDialogs :
        "cards" \in DOMAIN DocumentOf(n) =>
            LET cards == DocumentOf(n)["cards"]
                dialogs == PackageOf(n).content["dialogs"]
            IN  /\ Len(dialogs) = Len(cards)
                /\ \A m \in DOMAIN cards :
                      /\ dialogs[m].text = Get(cards[m], "text", EmptyText)
                      /\ dialogs[m].answer = Get(cards[m], "answer", EmptyText)

(* two different cards were packaged, in order, over a template that had   *)
(* a dialog of its own                                                     *)
C8_Witness ==
    \E n \in PackagedDialogs :
        /\ "cards" \in DOMAIN DocumentOf(n)
        /\ Len(DocumentOf(n)["cards"]) = 2
        /\ "text" \in DOMAIN DocumentOf(n)["cards"][1]
        /\ "text" \in DOMAIN DocumentOf(n)["cards"][2]
        /\ DocumentOf(n)["cards"][1]["text"] # DocumentOf(n)["cards"][2]["text"]
        /\ "dialogs" \in DOMAIN TemplateOf(n).content.data
        /\ TemplateOf(n).content.data["dialogs"] # <<>>
        /\ PackageOf(n).content["dialogs"][2].text = DocumentOf(n)["cards"][2]["text"]

(* C9: the dialog entry of a card carries a tip, an image and an audio     *)
(* field exactly when the card has that field.                             *)
has_tip(dialog) == "tip" \in DOMAIN dialog \/ "tips" \in DOMAIN dialog

C9_OptionalFieldsCarried ==
    \A n \in PackagedDialogs :
        "cards" \in DOMAIN DocumentOf(n) =>
            \A m \in DOMAIN DocumentOf(n)["cards"] :
                LET card == DocumentOf(n)["cards"][m]
                    dialog == PackageOf(n).content["dialogs"][m]
                IN  /\ has_tip(dialog) <=> "tip" \in DOMAIN card
                    /\ "image" \in DOMAIN dialog <=> "image" \in DOMAIN card
                    /\ "audio" \in DOMAIN dialog <=> "audio" \in DOMAIN card

(* C10: the packaged descriptors differ from the template's only in the    *)
(* documented fields of the kind.  Every other key of content.json and of  *)
(* h5p.json keeps its template value, inside the behaviour and the         *)
(* presentation blocks too, and no other key of the document appears.      *)
DocumentedContentFields(content_type) ==
    IF content_type = "dialog_cards" THEN {"title", "description", "dialogs", "behaviour"}
    ELSE IF content_type = "course_presentation" THEN {"presentation"}
    ELSE IF content_type = "multiple_choice" THEN {"title", "question", "answers", "behaviour"}
    ELSE IF content_type = "fill_blanks" THEN {"title", "text", "behaviour"}
    ELSE {"title"}

DocumentedMetadataFields == {"title"}

FrameKept(before, after, touched) ==
    /\ \A k \in (DOMAIN before) \ touched : k \in DOMAIN after /\ after[k] = before[k]
    /\ (DOMAIN after) \subseteq ((DOMAIN before) \cup touched)

C10_PatchDontReplace ==
    \A n \in Packaged :
        LET kind == pk_log[n].content_type
            doc == DocumentOf(n)
            before == TemplateOf(n).content.data
            after == PackageOf(n).content
        IN  /\ FrameKept(before, after, DocumentedContentFields(kind))
            /\ FrameKept(TemplateOf(n).h5p.data, PackageOf(n).h5p, DocumentedMetadataFields)
            /\ ("behaviour" \in DOMAIN before /\ "behaviour" \in DocumentedContentFields(kind)) =>
                  /\ "behaviour" \in DOMAIN after
                  /\ FrameKept(before["behaviour"], after["behaviour"],
                               DOMAIN Get(doc, "behaviour", EmptyDict))
            /\ ("presentation" \in DOMAIN before /\ kind = "course_presentation") =>
                  FrameKept(before["presentation"], after["presentation"],
                            {"title", "slides"} \cup DOMAIN Get(doc, "display", EmptyDict))

(* a document with a key of its own was packaged over a template that has *)
(* fields outside the documented ones, at the top and in the behaviour     *)
C10_Witness ==
    \E n \in Packaged :
        /\ pk_log[n].content_type = "dialog_cards"
        /\ "mode" \in DOMAIN DocumentOf(n)
        /\ "mode" \in DOMAIN TemplateOf(n).content.data
        /\ PackageOf(n).content["mode"] = TemplateOf(n).content.data["mode"]
        /\ "enableRetry" \in DOMAIN PackageOf(n).content["behaviour"]
        /\ PackageOf(n).content["behaviour"]["randomCards"] = TRUE
        /\ PackageOf(n).h5p["title"] = TemplateTitle

(* C11: create_h5p_package never modifies the template archive it          *)
(* selected: whenever a document has been processed, with success or with  *)
(* failure, the selected template is in the templates directory with the   *)
(* content it had before.                                                  *)
C11_TemplateNeverModified ==
    [][Len(pk_log') = Len(pk_log) + 1 =>
          LET selected == pk_log'[Len(pk_log')].template IN
          selected # Null =>
              \A t \in templates :
                  (t.dir = selected.dir /\ t.name = selected.name) => t \in templates']_vars

(* C12: after packaging any document, the asset folder of the produced     *)
(* archive holds no vector image, and every image path the content         *)
(* descriptor refers to ends in the raster extension.                      *)
VECTOR_EXT == ".svg"
RASTER_EXT == ".png"

image_paths(content) ==
    (IF "image" \in DOMAIN content THEN {content["image"].path} ELSE {})
    \cup (IF "dialogs" \in DOMAIN content
          THEN {content["dialogs"][n]["image"].path :
                   n \in {m \in DOMAIN content["dialogs"] : "image" \in DOMAIN content["dialogs"][m]}}
          ELSE {})

C12_NoVectorImages ==
    \A name \in DOMAIN packages :
        /\ \A asset \in packages[name].assets : asset.ext # VECTOR_EXT
        /\ \A path \in image_paths(packages[name].content) : path.ext = RASTER_EXT

(***************************************************************************)
(* Content-kind detection, read off the log of the packager run.           *)
(***************************************************************************)
name_has_keyword(name) == \E k \in Range(CONTENT_TYPE_KEYS) : contains(name, k)

(* a parsed document with a questions key and no cards or slides key,      *)
(* under a file name without kind keyword                                  *)
QuestionsOnly(n) ==
    /\ ~name_has_keyword(pk_log[n].file)
    /\ DirFile(pk_log[n].file).state = "json"
    /\ "questions" \in DOMAIN DocumentOf(n)
    /\ "cards" \notin DOMAIN DocumentOf(n)
    /\ "slides" \notin DOMAIN DocumentOf(n)

every_question_has_answers(qs) == qs # <<>> /\ \A m \in DOMAIN qs : "answers" \in DOMAIN qs[m]
some_question_has_answers(qs) == \E m \in DOMAIN qs : "answers" \in DOMAIN qs[m]
some_text_has_marker(qs) ==
    \E m \in DOMAIN qs : "text" \in DOMAIN qs[m] /\ qs[m]["text"] \in TextsWithMarker

(* C13 as claimed: multiple_choice when every question has an answers key, *)
(* fill_blanks when (that not being so) some question's text contains the  *)
(* blank marker.                                                           *)
C13_QuestionKinds_Claimed ==
    \A n \in DOMAIN pk_log :
        QuestionsOnly(n) =>
            LET qs == DocumentOf(n)["questions"] IN
            /\ every_question_has_answers(qs) => pk_log[n].content_type = "multiple_choice"
            /\ (~every_question_has_answers(qs) /\ some_text_has_marker(qs)) =>
                   pk_log[n].content_type = "fill_blanks"

(* C13 amended: multiple_choice as soon as some question has an answers    *)
(* key (so also when every question of a non-empty list has one), and      *)
(* fill_blanks when no question has an answers key and some question's     *)
(* text contains the blank marker.                                         *)
C13_QuestionKinds ==
    \A n \in DOMAIN pk_log :
        QuestionsOnly(n) =>
            LET qs == DocumentOf(n)["questions"] IN
            /\ some_question_has_answers(qs) => pk_log[n].content_type = "multiple_choice"
            /\ (~some_question_has_answers(qs) /\ some_text_has_marker(qs)) =>
                   pk_log[n].content_type = "fill_blanks"

(* a document mixing a question with answers and a blank-marker question   *)
(* without answers was found to be multiple_choice                         *)
C13_Witness ==
    \E n \in DOMAIN pk_log :
        /\ QuestionsOnly(n)
        /\ some_question_has_answers(DocumentOf(n)["questions"])
        /\ ~every_question_has_answers(DocumentOf(n)["questions"])
        /\ \E m \in DOMAIN DocumentOf(n)["questions"] :
              /\ "answers" \notin DOMAIN DocumentOf(n)["questions"][m]
              /\ "text" \in DOMAIN DocumentOf(n)["questions"][m]
              /\ DocumentOf(n)["questions"][m]["text"] \in TextsWithMarker
        /\ pk_log[n].content_type = "multiple_choice"

(* C14: when a kind keyword occurs in the file name, the kind returned is  *)
(* one whose keyword occurs in the name, whatever the content, and the     *)
(* file is not inspected for it; otherwise a cards key gives dialog_cards, *)
(* and a file that cannot be parsed or that matches nothing gives          *)
(* dialog_cards too.                                                       *)
C14_KeywordFirst ==
    \A n \in DOMAIN pk_log :
        LET name == pk_log[n].file
            file == DirFile(name)
            kind == pk_log[n].content_type
        IN  /\ name_has_keyword(name) => (contains(name, kind) /\ ~pk_log[n].inspected)
            /\ ~name_has_keyword(name) =>
                  /\ pk_log[n].inspected
                  /\ file.state # "json" => kind = "dialog_cards"
                  /\ (file.state = "json" /\ "cards" \in DOMAIN file.data) => kind = "dialog_cards"
                  /\ (file.state = "json" /\ DOMAIN file.data \cap {"cards", "slides", "questions"} = {})
                        => kind = "dialog_cards"

(* a document with a cards key under a multiple_choice file name was taken *)
(* as multiple_choice                                                      *)
C14_Witness ==
    \E n \in DOMAIN pk_log :
        /\ contains(pk_log[n].file, "multiple_choice")
        /\ ~contains(pk_log[n].file, "dialog_cards")
        /\ DirFile(pk_log[n].file).state = "json"
        /\ "cards" \in DOMAIN DocumentOf(n)
        /\ pk_log[n].content_type = "multiple_choice"

(* C15: the template selected for a document is an archive of              *)
(* <templates_dir>/<kind>/ whenever that directory holds one, otherwise    *)
(* some archive of the template tree; the lookup fails only when the tree  *)
(* holds no archive at all, and then the document is given up without an   *)
(* output archive.                                                         *)
Archives == {t \in templates : ends_with(t.name, ".h5p")}

C15_TemplateLookup ==
    \A n \in DOMAIN pk_log :
        LET kind == pk_log[n].content_type
            selected == pk_log[n].template
        IN  /\ (\E t \in Archives : t.dir = kind) => (selected # Null /\ selected.dir = kind)
            /\ Archives # {} =>
                  /\ selected # Null
                  /\ \E t \in Archives : t.dir = selected.dir /\ t.name = selected.name
            /\ Archives = {} =>
                  /\ selected = Null
                  /\ pk_log[n].outcome = "no_template"
                  /\ output_name(pk_log[n].file) \notin DOMAIN packages
            /\ pk_log[n].outcome = "no_template" => Archives = {}

(* a document was packaged over an archive found neither in its kind's     *)
(* directory nor by its kind's name                                        *)
C15_Witness ==
    \E n \in DOMAIN pk_log :
        /\ ~(\E t \in Archives : t.dir = pk_log[n].content_type)
        /\ ~(\E t \in Archives : contains(t.name, pk_log[n].content_type))
        /\ pk_log[n].template # Null
        /\ pk_log[n].outcome = "packaged"
        /\ Cardinality(Archives) > 1

(* C16: every document of the input directory is attempted exactly once;   *)
(* a document that fails, by a failure result or by an exception, does not *)
(* keep a later document from being packaged, and the archive produced for *)
(* a document stays as it was produced.                                    *)
JsonNamesOfDir == {name \in DirNames : ends_with(name, ".json")}

SelectedTemplate(n) ==
    {t \in templates : t.dir = pk_log[n].template.dir /\ t.name = pk_log[n].template.name}

CanBePackaged(n) ==
    /\ DirFile(pk_log[n].file).state = "json"
    /\ pk_log[n].template # Null
    /\ \A t \in SelectedTemplate(n) :
          t.zip = "ok" /\ t.content.state = "json" /\ t.h5p.state = "json"

C16_EveryDocumentAttemptedOnce ==
    /\ \A n, m \in DOMAIN pk_log : pk_log[n].file = pk_log[m].file => n = m
    /\ \A n \in DOMAIN pk_log : pk_log[n].file \in JsonNamesOfDir
    /\ pc = "pack_done" => {pk_log[n].file : n \in DOMAIN pk_log} = JsonNamesOfDir
    /\ \A n \in DOMAIN pk_log :
          /\ CanBePackaged(n) => pk_log[n].outcome = "packaged"
          /\ pk_log[n].outcome = "packaged" =>
                /\ output_name(pk_log[n].file) \in DOMAIN packages
                /\ packages[output_name(pk_log[n].file)] = pk_log[n].package

(* a run in which the first document failed and the second was packaged *)
C16_Witness ==
    /\ pc = "pack_done"
    /\ Len(pk_log) = 2
    /\ pk_log[1].outcome \in {"exception", "extract_failed"}
    /\ pk_log[2].outcome = "packaged"
    /\ output_name(pk_log[2].file) \in DOMAIN packages

(***************************************************************************)
(* Properties of the uploader, read off the trace of its remote calls.     *)
(***************************************************************************)
CallsOf(kind) == {k \in DOMAIN up_trace : up_trace[k].call = kind}

(* C17: the access check is called exactly once, before any upload or      *)
(* activity-creation call, and after a failed check no such call is made.  *)
C17_CheckFirstAndOnce ==
    /\ \A k \in CallsOf("check") : k = 1
    /\ \A k \in CallsOf("upload") \cup CallsOf("create") :
          /\ up_trace[1].call = "check"
          /\ up_trace[1].outcome = "ok"
          /\ k > 1
    /\ (config # Null /\ up_pc \notin {"idle", "check"}) => CallsOf("check") = {1}

(* a run whose check succeeded and that went on to upload and create, and  *)
(* whose trace holds the one check                                         *)
C17_Witness ==
    /\ up_pc = "done"
    /\ CallsOf("check") = {1}
    /\ CallsOf("upload") # {}
    /\ CallsOf("create") # {}

(* C18: a failing upload or activity-creation step never stops the loop:   *)
(* at the end every archive found has been processed and success + failure *)
(* is the number of archives found.                                        *)
C18_EveryArchiveCounted ==
    (up_pc = "done" /\ found # <<>>) =>
        /\ h5p_files = <<>>
        /\ successful_uploads + failed_uploads = Len(found)

(* C19: the uploader ends with a nonzero exit status when the credentials  *)
(* are missing or the access check fails, the packager when no template    *)
(* archive can be found; failures of single items alone leave the exit     *)
(* status zero.                                                            *)
CheckFailed == CallsOf("check") # {} /\ up_trace[1].outcome # "ok"

C19_ExitStatus ==
    /\ (up_pc = "done" /\ (config = Null \/ CheckFailed)) => up_exit = "nonzero"
    /\ (up_pc = "done" /\ config # Null /\ ~CheckFailed) => up_exit = "zero"
    /\ (pc = "pack_done" /\ \E n \in DOMAIN pk_log : pk_log[n].outcome = "no_template") =>
          pk_exit = "nonzero"
    /\ (pc = "pack_done" /\ \A n \in DOMAIN pk_log : pk_log[n].outcome # "no_template") =>
          pk_exit = "zero"

(***************************************************************************)
(* C20: call_gpt4o makes at most 3 attempts; it returns the content of the *)
(* first successful attempt and attempts nothing after it; a failed        *)
(* attempt that is not the last is followed by a wait, 5 seconds the first *)
(* time and 10 the second; the third failure is raised again, without a    *)
(* wait and without a value returned.                                      *)
(***************************************************************************)
Attempts == {k \in DOMAIN gpt_trace : gpt_trace[k].step = "attempt"}
Waits == {k \in DOMAIN gpt_trace : gpt_trace[k].step = "sleep"}

C20_ThreeAttemptsWithBackoff ==
    /\ Cardinality(Attempts) <= 3
    /\ \A k \in Attempts :
          /\ k % 2 = 1
          /\ gpt_trace[k].ok => (k = Len(gpt_trace) /\ gpt_result = [returned |-> gpt_trace[k].value])
          /\ (~gpt_trace[k].ok /\ k < 5 /\ gpt_pc = "attempt") => k < Len(gpt_trace)
    /\ \A k \in Waits :
          /\ k % 2 = 0
          /\ ~gpt_trace[k - 1].ok
          /\ gpt_trace[k].value = (IF k = 2 THEN 5 ELSE 10)
    /\ gpt_pc = "returned" => (gpt_trace # <<>> /\ gpt_trace[Len(gpt_trace)].ok)
    /\ gpt_pc = "raised" =>
          /\ Len(gpt_trace) = 5
          /\ Cardinality(Attempts) = 3
          /\ \A k \in Attempts : ~gpt_trace[k].ok
          /\ gpt_result = [raised |-> gpt_trace[5].value]
    /\ gpt_pc \notin {"returned", "raised"} => gpt_result = Null

(* two failures, waits of 5 and 10 seconds, then the third attempt's       *)
(* completion is returned                                                  *)
C20_Witness ==
    /\ gpt_pc = "returned"
    /\ Len(gpt_trace) = 5
    /\ gpt_trace[2].value = 5
    /\ gpt_trace[4].value = 10
    /\ gpt_result = [returned |-> gpt_trace[5].value]

(***************************************************************************)
(* Properties of the test mode of the generator.                           *)
(***************************************************************************)
TestModeRun == caller = "save_json_content" /\ pc \in {"loop", "image", "audio", "store", "dump",
                                                       "assemble", "saved"}

(* C21: a run of the generator in test mode makes no remote text-          *)
(* completion call at any point, media generation included.                *)
C21_TestModeNoTextCompletion == TestModeRun => "text" \notin remote

(* C22: in test mode with a string of n characters the saved document has  *)
(* exactly n cards, the i-th being the card of the i-th character, and the *)
(* document packaged against the dialog-cards template has exactly n       *)
(* dialog entries whose text is the text of the corresponding card.        *)
SavedCards == docFile.data["cards"]

C22_TestModeEndToEnd ==
    /\ docFile.state = "json" =>
          /\ Len(SavedCards) = Len(input)
          /\ \A k \in DOMAIN input : SavedCards[k]["text"].ch = input[k]
    /\ \A n \in PackagedDialogs :
          pk_log[n].file = DOC_NAME =>
              LET dialogs == PackageOf(n).content["dialogs"]
              IN  /\ Len(dialogs) = Len(input)
                  /\ \A k \in DOMAIN input : dialogs[k].text = SavedCards[k]["text"]

(* a document of three batches of characters was saved and packaged over   *)
(* the dialog-cards template                                               *)
C22_Witness ==
    /\ Len(input) > 2 * batch_size
    /\ docFile.state = "json"
    /\ \E n \in PackagedDialogs :
          /\ pk_log[n].file = DOC_NAME
          /\ pk_log[n].template = [dir |-> "dialog_cards", name |-> DialogCardsTemplate.name]
          /\ Len(PackageOf(n).content["dialogs"]) = Len(input)
          /\ PackageOf(n).content["dialogs"][2].text = SavedCards[2]["text"]
          /\ SavedCards[1]["text"].ch # SavedCards[2]["text"].ch

(***************************************************************************)
(* Properties of the batch loop, read off media_trace.                     *)
(***************************************************************************)
IsOrderEntry(e) == e.step \in {"symbol", "sleep"}
IsSleepEntry(e) == e.step = "sleep"
OrderOf(trace) == SelectSeq(trace, IsOrderEntry)
IsPrefix(a, b) == Len(a) <= Len(b) /\ SubSeq(b, 1, Len(a)) = a

(* the symbols of the input list that are not in the progress map as it    *)
(* was loaded, in list order                                               *)
NotYetProcessed == Filter(characters, Range(characters) \ (DOMAIN loaded))

(* batches of batch_size symbols with one delay after every full batch     *)
(* that is followed by another symbol                                      *)
RECURSIVE ExpectedOrder(_, _)
ExpectedOrder(chars, k) ==
    IF k > Len(chars) THEN <<>>
    ELSE <<TraceEntry("symbol", chars[k], TRUE)>>
         \o (IF k % batch_size = 0 /\ k < Len(chars)
             THEN <<TraceEntry("sleep", "", TRUE)>> ELSE <<>>)
         \o ExpectedOrder(chars, k + 1)

ExpectedDelays(n) == IF n = 0 THEN 0 ELSE (n + batch_size - 1) \div batch_size - 1

BatchLoopOver == (pc = "loop" /\ ~MoreBatches) \/ pc = "assemble"

(* C23: generate_media_batch processes the symbols not yet in the progress *)
(* map in list order, in consecutive batches of 5 (the last possibly       *)
(* shorter), with exactly one delay between two consecutive batches and    *)
(* none after the last: ceil(n/5)-1 delays for n > 0 symbols, none for 0.  *)
C23_BatchesAndDelays ==
    (InCall \/ pc = "assemble") =>
        /\ IsPrefix(OrderOf(media_trace), ExpectedOrder(NotYetProcessed, 1))
        /\ BatchLoopOver =>
              /\ OrderOf(media_trace) = ExpectedOrder(NotYetProcessed, 1)
              /\ Len(SelectSeq(media_trace, IsSleepEntry)) = ExpectedDelays(Len(NotYetProcessed))
              /\ sleeps = ExpectedDelays(Len(NotYetProcessed))

(* eleven symbols were processed in three batches with two delays *)
C23_Witness ==
    /\ BatchLoopOver
    /\ Len(NotYetProcessed) = 2 * batch_size + 1
    /\ Len(SelectSeq(media_trace, IsSleepEntry)) = 2
    /\ OrderOf(media_trace)[batch_size + 1].step = "sleep"
    /\ OrderOf(media_trace)[Len(OrderOf(media_trace))].step = "symbol"

(* the generator named by step was invoked in the step just taken and      *)
(* reported failure                                                        *)
ReportedFailure(trace, step) ==
    /\ trace # <<>>
    /\ trace[Len(trace)].step = step
    /\ ~trace[Len(trace)].ok

(* C24: for a symbol not in the progress map the image generator is        *)
(* invoked iff the target image file is absent and the audio generator iff *)
(* the target audio file is absent, each check on its own; the value       *)
(* recorded for a medium is null exactly when its generator was invoked    *)
(* and reported failure.                                                   *)
C24_GeneratorsGatedByFiles ==
    [][/\ (pc = "image" /\ pc' = "audio") =>
            /\ ("image" \in invoked') <=> (char \notin imgFiles)
            /\ ("audio" \in invoked') <=> ("audio" \in invoked)
            /\ (char_result'["char_image"] = Null)
                   <=> ("image" \in invoked' /\ ReportedFailure(media_trace', "image"))
       /\ (pc = "audio" /\ pc' = "store") =>
            /\ ("audio" \in invoked') <=> (char \notin audFiles)
            /\ ("image" \in invoked') <=> ("image" \in invoked)
            /\ char_result'["char_image"] = char_result["char_image"]
            /\ (char_result'["audio"] = Null)
                   <=> ("audio" \in invoked' /\ ReportedFailure(media_trace', "audio"))
       /\ (pc = "store" /\ pc' = "dump") =>
            /\ results'[char] = char_result
            /\ processed_chars'[char] = char_result]_vars

(* the image was found on disk and recorded without a call, the audio was  *)
(* absent, its generator was called and failed                             *)
C24_Witness ==
    /\ pc = "store"
    /\ invoked = {"audio"}
    /\ char \in imgFiles
    /\ char_result["char_image"] # Null
    /\ char_result["audio"] = Null
    /\ char \notin DOMAIN loaded

(***************************************************************************)
(* Properties of the uploader's loop, read off up_trace.                   *)
(***************************************************************************)
(* C25: for each archive the activity-creation step is called at most      *)
(* once, only directly after the upload step of that same archive returned *)
(* an item identifier, and with exactly that identifier; after a failed    *)
(* upload it is not called for that archive.                               *)
C25_CreateAfterUpload ==
    /\ \A k \in CallsOf("create") :
          /\ k > 1
          /\ up_trace[k - 1].call = "upload"
          /\ up_trace[k - 1].file = up_trace[k].file
          /\ up_trace[k - 1].outcome = "item"
          /\ up_trace[k].item = [item |-> up_trace[k].file]
    /\ \A k, m \in CallsOf("create") : up_trace[k].file = up_trace[m].file => k = m
    /\ \A k \in CallsOf("upload") :
          (up_trace[k].outcome # "item" /\ k < Len(up_trace)) => up_trace[k + 1].call # "create"
    /\ up_pc = "create" =>
          /\ up_trace # <<>>
          /\ up_trace[Len(up_trace)].call = "upload"
          /\ up_trace[Len(up_trace)].outcome = "item"
          /\ item_id = [item |-> Head(h5p_files)]

(* the first archive's upload failed and no activity was created for it;   *)
(* the second archive was uploaded and its activity created from its item  *)
C25_Witness ==
    \E k \in DOMAIN up_trace :
        /\ k + 2 <= Len(up_trace)
        /\ up_trace[k].call = "upload"
        /\ up_trace[k].outcome # "item"
        /\ up_trace[k + 1].call = "upload"
        /\ up_trace[k + 1].outcome = "item"
        /\ up_trace[k + 1].file # up_trace[k].file
        /\ up_trace[k + 2].call = "create"
        /\ up_trace[k + 2].item = [item |-> up_trace[k + 1].file]

(* C26: the fixed delay occurs between the processing of every two         *)
(* consecutive archives, whatever the outcome of the earlier one.          *)
C26_DelayBetweenArchives ==
    \A k \in CallsOf("upload") :
        (\E m \in CallsOf("upload") : m < k) => up_trace[k - 1].call = "sleep"

(***************************************************************************)
(* Properties of generate_audio.                                           *)
(***************************************************************************)
ClipsOf(c) == {AudioFile(c, "char_path"), AudioFile(c, "word_path")}

(* C27: when generate_audio returns, with success or failure and wherever  *)
(* the failure occurred, neither clip of its target (<target>_char.mp3,    *)
(* <target>_word.mp3) exists on disk.                                      *)
C27_NoClipsLeft ==
    au_pc = "returned" => ClipsOf(character) \cap au_files = {}

(* the export raised after both clips had been written and generate_audio  *)
(* returned False                                                          *)
C27_Witness ==
    /\ au_pc = "returned"
    /\ au_ret = "false"
    /\ au_failed_at = "export"
    /\ ClipsOf(character) \cap au_files = {}

(***************************************************************************)
(* Properties of the recorded paths and of the generator calls.            *)
(***************************************************************************)
(* the path below output_dir at which the code tests and writes the file,  *)
(* lines 887-888 and 924-928                                               *)
image_file_path(c) == RelPath("images", char_img_name(c))
audio_file_path(c) == RelPath("audios", audio_name(c))

RecordedMaps == {results, processed_chars, load_progress(progress_file)}

(* C28: every non-null path recorded in a result or in a progress-map      *)
(* entry is the path, relative to output_dir, of a file that exists there  *)
(* (images/<name>, audios/<name>), the same whether the asset was          *)
(* generated in this call or found on disk.                                *)
C28_RecordedPathsExist ==
    \A m \in RecordedMaps : \A c \in DOMAIN m :
        /\ m[c]["char_image"] # Null =>
              (m[c]["char_image"] = image_file_path(c) /\ c \in imgFiles)
        /\ m[c]["audio"] # Null =>
              (m[c]["audio"] = audio_file_path(c) /\ c \in audFiles)

GeneratorCalls == {k \in DOMAIN media_trace : media_trace[k].step \in {"image", "audio"}}

(* C29: within one invocation of generate_media_batch the image generator  *)
(* and the audio generator are each invoked at most once per distinct      *)
(* glyph, also when the glyph occurs more than once in the list and its    *)
(* first generation attempt failed.                                        *)
C29_OncePerGlyph ==
    \A k, m \in GeneratorCalls :
        (media_trace[k].step = media_trace[m].step /\ media_trace[k].char = media_trace[m].char)
            => k = m

(* C30: when generate_example_image or generate_audio reports failure for  *)
(* a symbol, no file is left at the asset's target path.                   *)
C30_NoFileAfterFailure ==
    /\ (pc = "audio" /\ ReportedFailure(media_trace, "image")) => char \notin imgFiles
    /\ (pc = "store" /\ ReportedFailure(media_trace, "audio")) => char \notin audFiles

====
